---- MODULE Spec2Model ----
(***************************************************************************)
(* The retrieval pipeline of MindShift: document loading, index building   *)
(* into a persistent Chroma collection, and the query operation, as        *)
(* implemented by mindshift_rag.py (MindShiftRAG), som_data_loader.py      *)
(* (SOMDataLoader) and som_pipeline_demo.py; the chat loop of the command  *)
(* line, the web front end (streamlit_app.py) and the two Supabase account *)
(* scripts (fix_auth.py, fix_auth_comprehensive.py).                       *)
(*                                                                         *)
(* A text is a sequence of tokens; a document is named by its file; a      *)
(* stored record is a chunk [run, file, pos] tagged with the ingestion run *)
(* that wrote it (node ids are fresh per run, so a later run never         *)
(* overwrites the records of an earlier one).                              *)
(***************************************************************************)
EXTENDS Integers, Sequences, FiniteSets, TLC

VARIABLES
    apiKey,         \* OPENAI_API_KEY is set in the environment
    docsDirExists,  \* ./som_documents exists
    docxAvailable,  \* the python-docx package can be imported
    files,          \* the documents directory: file name -> content state
    disk,           \* the persist directory: its existence and its collections
    entry,          \* the entry point of the running process ("none": no process)
    rag,            \* the fields of the MindShiftRAG object
    som,            \* the fields of the SOMDataLoader object
    effects,        \* what the running process has done so far
    runs,           \* ingestion runs started so far (all processes)
    report,         \* the fatal error the last process start reported
    lastOp,         \* the operation that produced this state
    lastRun,        \* outcome of the ingestion run that produced this state
    lastQuery,      \* outcome of the call of query that produced this state
    text,           \* the text of a document handed to a splitter
    cfg,            \* the parameters a caller gives a pipeline
    out,            \* what the pipeline used and the chunks it made of text
    lastStats,      \* outcome of the call of get_collection_stats that produced this state
    lastTurn,       \* outcome of the turn of the chat loop that produced this state
    sessions,       \* the browser sessions of the web front end
    supa,           \* the Supabase project: per email, its auth user and its profile
    lastFix         \* outcome of the call of a Supabase fixer that produced this state

vars == <<apiKey, docsDirExists, docxAvailable, files, disk, entry, rag, som,
          effects, runs, report, lastOp, lastRun, lastQuery, text, cfg, out,
          lastStats, lastTurn, sessions, supa, lastFix>>

env == <<apiKey, docsDirExists, docxAvailable, files>>

\* The variables of the pipeline runs and those of the splitter calls.
pipeVars == <<env, disk, entry, rag, som, effects, runs, report, lastOp,
              lastRun, lastQuery, lastStats, lastTurn>>
splitVars == <<text, cfg, out>>
\* The variables of the web front end and those of the Supabase scripts.
webVars == <<sessions>>
authVars == <<supa, lastFix>>

----------------------------------------------------------------------------
(* Bounds of the model *)

\* chunks the splitter yields for one document, at most
MaxChunksPerDoc == 2
\* ingestion runs, over all processes
MaxRuns == 2
\* records per write batch of the index (the libraries write batch by batch)
InsertBatchSize == 2
\* prompts submitted to the web front end, over all browser sessions
MaxPrompts == 2

----------------------------------------------------------------------------
(* Program constants *)

PersistDir == "./chroma_db"
DocsDirectory == "./som_documents"
RagCollection == "mindshift_som_patterns"
SomCollection == "som_mindshift"
CollectionNames == {RagCollection, SomCollection}
TopK == 5
ApologyPhrase == "I apologize, but I encountered an error while processing your request: "

\* The directory listing, in the order glob yields it.
FileOrder == <<"a.txt", "b.docx", "c.docx">>
FileNames == {FileOrder[i] : i \in 1..Len(FileOrder)}
Ext(f) == IF f = "a.txt" THEN "txt" ELSE "docx"

\* The chunks the splitter yields for the text of a file: one for the short
\* text of b.docx, MaxChunksPerDoc for the long texts of the others.
DocChunks(f) == IF f = "b.docx" THEN 1 ELSE MaxChunksPerDoc

\* What a directory may hold under a file name: nothing, a file that cannot
\* be read or parsed, a file with blank content, a file with text.
FileStates(f) ==
    {[st |-> s, n |-> 0] : s \in {"missing", "unreadable", "blank"}}
        \cup {[st |-> "text", n |-> DocChunks(f)]}

\* The directories the model starts from: an empty one, or one holding
\* every file of FileOrder in some state.
Directories ==
    {d \in [FileNames -> UNION {FileStates(f) : f \in FileNames}] :
        /\ \A f \in FileNames : d[f] \in FileStates(f)
        /\ \/ \A f \in FileNames : d[f].st = "missing"
           \/ \A f \in FileNames : d[f].st # "missing"}

UserInputs == {"I am not good enough", "I always fail"}
Replies == {"generated reply"}

\* An unset field (Python's None) and a set one.
None == [set |-> FALSE, name |-> "", run |-> 0]
Ref(name, run) == [set |-> TRUE, name |-> name, run |-> run]

EmptyCollection == [exists |-> FALSE, recs |-> {}]

Min(a, b) == IF a < b THEN a ELSE b

IsPrefix(s, t) == Len(s) <= Len(t) /\ SubSeq(t, 1, Len(s)) = s

SeqToSet(s) == {s[i] : i \in 1..Len(s)}

----------------------------------------------------------------------------
(* The world an operation works on: the object, the disk and a log of the  *)
(* call.  err = "none" while nothing has been raised.                      *)

World ==
    [rag |-> rag, som |-> som, disk |-> disk, effects |-> effects,
     stages |-> <<>>, err |-> "none", docs |-> <<>>, loadReached |-> FALSE,
     chunks |-> 0, created |-> {}, openCount |-> <<>>]

Raise(w, e) == [w EXCEPT !.err = e]
Stage(w, s) == [w EXCEPT !.stages = Append(@, s)]
Effect(w, e) == [w EXCEPT !.effects = @ \cup {e}]

----------------------------------------------------------------------------
(* Document loading *)

\* open()/read() or DocxDocument() succeeds on the file
Readable(f) == files[f].st \in {"blank", "text"}
\* content.strip() is non-empty
NonBlank(f) == files[f].st = "text"
Present(f) == files[f].st # "missing"

\* The files docs_path.glob("*.<ext>") yields, in order.
Glob(ext) == SelectSeq(FileOrder, LAMBDA f : Present(f) /\ Ext(f) = ext)

\* The same loop without the test of content.strip().
RECURSIVE ReadFilesKeepBlank(_, _)
ReadFilesKeepBlank(fs, acc) ==
    IF fs = <<>> THEN acc
    ELSE LET f == Head(fs)
         IN  ReadFilesKeepBlank(Tail(fs), IF Readable(f) THEN Append(acc, f) ELSE acc)

\* One pass of a loader's for loop: each file in its own try/except, a file
\* that raises is logged and skipped, a blank one is skipped.
RECURSIVE ReadFiles(_, _)
ReadFiles(fs, acc) ==
    IF fs = <<>> THEN acc
    ELSE LET f == Head(fs)
         IN  ReadFiles(Tail(fs),
                       IF Readable(f) /\ NonBlank(f) THEN Append(acc, f) ELSE acc)

\* The same loop, leaving at the first file that raises.
RECURSIVE ReadFilesAbort(_, _)
ReadFilesAbort(fs, acc) ==
    IF fs = <<>> THEN acc
    ELSE LET f == Head(fs)
         IN  IF ~Readable(f) THEN acc
             ELSE ReadFilesAbort(Tail(fs),
                                 IF NonBlank(f) THEN Append(acc, f) ELSE acc)

\* load_documents with loops that stop at the first file that raises.
RagLoadDocumentsAbort(w) ==
    IF ~docsDirExists THEN Raise(w, "FileNotFoundError")
    ELSE LET txt == ReadFilesAbort(Glob("txt"), <<>>)
             all == IF docxAvailable THEN ReadFilesAbort(Glob("docx"), txt) ELSE txt
             w1 == [w EXCEPT !.docs = all, !.loadReached = TRUE]
         IN  IF all = <<>> THEN Raise(w1, "ValueError: No valid documents found")
             ELSE Stage(Effect(w1, "documents_loaded"), "DOCUMENTS_LOADED")

\* load_documents without the test for an empty document list.
RagLoadDocumentsNoCheck(w) ==
    IF ~docsDirExists THEN Raise(w, "FileNotFoundError")
    ELSE LET txt == ReadFiles(Glob("txt"), <<>>)
             all == IF docxAvailable THEN ReadFiles(Glob("docx"), txt) ELSE txt
             w1 == [w EXCEPT !.docs = all, !.loadReached = TRUE]
         IN  Stage(Effect(w1, "documents_loaded"), "DOCUMENTS_LOADED")

\* MindShiftRAG.load_documents: .txt files, then .docx files when python-docx
\* imports; raises when the directory is missing or no document was loaded.
RagLoadDocuments(w) ==
    IF ~docsDirExists THEN Raise(w, "FileNotFoundError")
    ELSE LET txt == ReadFiles(Glob("txt"), <<>>)
             all == IF docxAvailable THEN ReadFiles(Glob("docx"), txt) ELSE txt
             w1 == [w EXCEPT !.docs = all, !.loadReached = TRUE]
         IN  IF all = <<>> THEN Raise(w1, "ValueError: No valid documents found")
             ELSE Stage(Effect(w1, "documents_loaded"), "DOCUMENTS_LOADED")

\* The .docx loop of SOMDataLoader.load_documents and load_docx_documents:
\* the import sits inside the per-file try, so without python-docx every
\* file raises ImportError and is skipped.
ReadDocx == IF docxAvailable THEN ReadFiles(Glob("docx"), <<>>) ELSE <<>>

\* load_documents taking a missing directory for an empty one.
SomLoadDocumentsMissingAsEmpty(w) ==
    LET found == IF docsDirExists THEN ReadDocx ELSE <<>>
        w1 == [w EXCEPT !.docs = found, !.loadReached = TRUE]
    IN  IF found = <<>> THEN Raise(w1, "ValueError: No valid documents found")
        ELSE Stage(Effect(w1, "documents_loaded"), "DOCUMENTS_LOADED")

\* SOMDataLoader.load_documents
SomLoadDocuments(w) ==
    IF ~docsDirExists THEN Raise(w, "FileNotFoundError")
    ELSE LET w1 == [w EXCEPT !.docs = ReadDocx, !.loadReached = TRUE]
         IN  IF ReadDocx = <<>> THEN Raise(w1, "ValueError: No valid documents found")
             ELSE Stage(Effect(w1, "documents_loaded"), "DOCUMENTS_LOADED")

\* load_docx_documents of the demo: returns the list, also when it is empty.
DemoLoadDocuments(w) ==
    IF ~docsDirExists THEN Raise(w, "FileNotFoundError")
    ELSE LET w1 == [w EXCEPT !.docs = ReadDocx, !.loadReached = TRUE]
         IN  Stage(IF ReadDocx = <<>> THEN w1 ELSE Effect(w1, "documents_loaded"),
                   "DOCUMENTS_LOADED")

----------------------------------------------------------------------------
(* Chunking and the batched write into a collection *)

\* The chunks of the documents, in document order: files[f].n chunks for
\* document f (a non-blank text always yields at least one chunk).
RECURSIVE ChunkList(_)
ChunkList(docs) ==
    IF docs = <<>> THEN <<>>
    ELSE [i \in 1..files[Head(docs)].n |-> [file |-> Head(docs), pos |-> i]]
             \o ChunkList(Tail(docs))

NumBatches(total) == (total + InsertBatchSize - 1) \div InsertBatchSize
MaxBatches == NumBatches(Len(FileOrder) * MaxChunksPerDoc)

\* Where a build may fail, and for a failure while embedding or writing, the
\* number of batches written before it.
BuildFaults ==
    {[at |-> a, k |-> 0] : a \in {"none", "client", "collection", "chunk", "engine"}}
        \cup {[at |-> a, k |-> k] : a \in {"embed", "write"}, k \in 0..(MaxBatches - 1)}

\* The records run `run` stores for the first `count` chunks; ids are fresh.
Records(run, chunks, count) ==
    {[run |-> run, file |-> chunks[i].file, pos |-> chunks[i].pos] : i \in 1..count}

\* Embed and add the chunks batch by batch: each batch is embedded (one call
\* of the embedding service, which needs the credential) and then added to
\* the collection.  A failure leaves the batches before it in the collection.
WriteBatches(w, coll, run, chunks, fault) ==
    LET total == Len(chunks)
        nb == NumBatches(total)
        fails == nb > 0 /\ (~apiKey \/ fault.at \in {"embed", "write"})
        done == IF ~fails THEN nb
                ELSE IF ~apiKey THEN 0
                ELSE Min(fault.k, nb - 1)
        written == Min(done * InsertBatchSize, total)
        w1 == IF nb > 0 THEN Effect(w, "embed_call") ELSE w
        w2 == [w1 EXCEPT !.disk.coll[coll].recs = @ \cup Records(run, chunks, written),
                         !.chunks = total]
    IN  IF ~fails THEN w2
        ELSE IF ~apiKey THEN Raise(w2, "AuthenticationError: no API key")
        ELSE IF fault.at = "embed" THEN Raise(w2, "ConnectionError: embedding")
        ELSE Raise(w2, "ChromaError: add")

----------------------------------------------------------------------------
(* MindShiftRAG *)

NewRag ==
    [chroma_client |-> None, chroma_collection |-> None, vector_store |-> None,
     index |-> None, query_engine |-> None]

\* A collection opened as a new one, whatever the directory holds.
OpenCollectionFresh(w, coll) ==
    [w EXCEPT !.disk.coll[coll] = [exists |-> TRUE, recs |-> {}],
              !.created = IF w.disk.coll[coll].exists THEN @ ELSE @ \cup {coll},
              !.effects = @ \cup {"collection_opened"},
              !.openCount = <<0>>]

\* get_or_create_collection: an existing collection is opened with its
\* records; openCount is its count() right after that.
OpenCollection(w, coll) ==
    [w EXCEPT !.disk.coll[coll].exists = TRUE,
              !.created = IF w.disk.coll[coll].exists THEN @ ELSE @ \cup {coll},
              !.effects = @ \cup {"collection_opened"},
              !.openCount = <<Cardinality(w.disk.coll[coll].recs)>>]

\* PersistentClient(path): creates the directory when it is missing.
OpenClient(w) ==
    [w EXCEPT !.disk.dir = TRUE, !.effects = @ \cup {"store_opened"}]

\* MindShiftRAG.setup_chromadb
SetupChromadb(w, fault) ==
    IF fault.at = "client" THEN Raise(w, "ChromaError: client")
    ELSE LET w1 == [OpenClient(w) EXCEPT !.rag.chroma_client = Ref(PersistDir, 0)]
         IN  IF fault.at = "collection" THEN Raise(w1, "ChromaError: collection")
             ELSE Stage([OpenCollection(w1, RagCollection) EXCEPT
                            !.rag.chroma_collection = Ref(RagCollection, 0),
                            !.rag.vector_store = Ref(RagCollection, 0)],
                        "STORE_READY")

\* MindShiftRAG.create_index: VectorStoreIndex.from_documents splits, embeds
\* and adds; self.index is assigned only when it returns.
CreateIndex(w, run, fault) ==
    IF fault.at = "chunk" THEN Raise(w, "SplitterError")
    ELSE LET coll == w.rag.vector_store.name
             w1 == WriteBatches(w, coll, run, ChunkList(w.docs), fault)
         IN  IF w1.err # "none" THEN w1
             ELSE Stage([w1 EXCEPT !.rag.index = Ref(coll, run)], "INDEX_BUILT")

\* MindShiftRAG.setup_query_engine
SetupQueryEngine(w, fault) ==
    IF ~w.rag.index.set THEN Raise(w, "AttributeError: 'NoneType' object")
    ELSE IF fault.at = "engine" THEN Raise(w, "ValueError: query engine")
    ELSE Stage([w EXCEPT !.rag.query_engine = w.rag.index], "QUERY_READY")

\* initialize_system with the documents loaded before the store is set up.
InitializeSystemLoadFirst(w, run, fault) ==
    LET w1 == RagLoadDocuments(w)
    IN  IF w1.err # "none" THEN w1 ELSE
    LET w2 == SetupChromadb(w1, fault)
    IN  IF w2.err # "none" THEN w2 ELSE
    LET w3 == CreateIndex(w2, run, fault)
    IN  IF w3.err # "none" THEN w3 ELSE
    SetupQueryEngine(w3, fault)

\* MindShiftRAG.initialize_system: the four steps in order; an exception of
\* a step leaves the method, the later steps do not run.
InitializeSystem(w, run, fault) ==
    LET w1 == SetupChromadb(w, fault)
    IN  IF w1.err # "none" THEN w1 ELSE
    LET w2 == RagLoadDocuments(w1)
    IN  IF w2.err # "none" THEN w2 ELSE
    LET w3 == CreateIndex(w2, run, fault)
    IN  IF w3.err # "none" THEN w3 ELSE
    SetupQueryEngine(w3, fault)

\* MindShiftRAG.get_collection_stats, as the pair (error, total_documents)
GetCollectionStats(w) ==
    IF ~w.rag.chroma_collection.set THEN [error |-> TRUE, total_documents |-> 0]
    ELSE [error |-> FALSE,
          total_documents |-> Cardinality(w.disk.coll[w.rag.chroma_collection.name].recs)]

----------------------------------------------------------------------------
(* MindShiftRAG.query *)

QueryFaults == {"none", "embed", "store", "llm"}

\* Every record a run may store, in the order the store ranks them.
AllRecords ==
    [k \in 1..(MaxRuns * Len(FileOrder) * MaxChunksPerDoc) |->
        LET perRun == Len(FileOrder) * MaxChunksPerDoc
            r == ((k - 1) \div perRun) + 1
            j == (k - 1) % perRun
        IN  [run |-> r, file |-> FileOrder[(j \div MaxChunksPerDoc) + 1],
             pos |-> (j % MaxChunksPerDoc) + 1]]

\* A retriever that hands back every record of the collection.
RetrieveAll(w, k) ==
    SelectSeq(AllRecords, LAMBDA r : r \in w.disk.coll[w.rag.index.name].recs)

\* retriever.retrieve: the similarity_top_k best records of the collection
\* the index was built on, as the collection is now.
Retrieve(w, k) ==
    LET stored == SelectSeq(AllRecords,
                            LAMBDA r : r \in w.disk.coll[w.rag.index.name].recs)
    IN  SubSeq(stored, 1, Min(k, Len(stored)))

\* node.text: the text of the chunk; the records that two runs stored for
\* the same chunk of the same file carry the same text.
NodeText(r) == r.file \o "#" \o ToString(r.pos)

\* sep.join(texts), as the sequence of its parts
RECURSIVE JoinWith(_, _)
JoinWith(texts, sep) ==
    IF texts = <<>> THEN <<>>
    ELSE IF Len(texts) = 1 THEN texts
    ELSE <<Head(texts), sep>> \o JoinWith(Tail(texts), sep)

\* The node texts joined last to first.
ContextBlockReversed(nodes) ==
    JoinWith([i \in 1..Len(nodes) |-> NodeText(nodes[Len(nodes) + 1 - i])], "\n\n")

\* retrieved_content = "\n\n".join([node.text for node in nodes])
ContextBlock(nodes) ==
    JoinWith([i \in 1..Len(nodes) |-> NodeText(nodes[i])], "\n\n")

\* The fixed parts of the coaching prompt.
PromptOpening == "You are MindShift, an expert NLP coach [...] The user has shared a limiting belief: "
PromptKnowledge == "Here are the relevant SOM patterns and conversation examples from the knowledge base:"
PromptTask == "Based on this retrieved information, please: [...]"

\* coaching_prompt: the f-string with user_input between quotes and
\* retrieved_content in its own paragraph, as the sequence of its parts.
CoachingPrompt(user_input, context) ==
    <<PromptOpening, "\"", user_input, "\"", PromptKnowledge>>
        \o context \o <<PromptTask>>

NoQuery ==
    [input |-> "", outcome |-> "none", value |-> <<>>, err |-> "none",
     nodes |-> <<>>, retrieved |-> FALSE, completions |-> 0,
     context |-> <<>>, prompt |-> <<>>,
     calls |-> <<>>, sent |-> <<>>, generated |-> <<>>]

\* The body of the try block: what fails first ends it with err set.  calls
\* lists the calls of retriever.retrieve and llm.complete in the order they
\* are made, sent the argument of each completion call, generated what the
\* completion service answered.
QueryBody(w, user_input, fault, reply) ==
    LET q0 == [NoQuery EXCEPT !.input = user_input, !.outcome = "returned"]
    IN  IF ~w.rag.index.set
        THEN [w |-> w, q |-> [q0 EXCEPT !.err = "AttributeError: 'NoneType' object"]]
        ELSE LET w1 == Effect(w, "embed_call")
                 qr == [q0 EXCEPT !.calls = <<"retrieve">>]
             IN  IF ~apiKey
                 THEN [w |-> w1, q |-> [qr EXCEPT !.err = "AuthenticationError: no API key"]]
                 ELSE IF fault = "embed"
                 THEN [w |-> w1, q |-> [qr EXCEPT !.err = "ConnectionError: embedding"]]
                 ELSE IF fault = "store"
                 THEN [w |-> w1, q |-> [qr EXCEPT !.err = "ChromaError: query"]]
                 ELSE LET nodes == Retrieve(w, TopK)
                          prompt == CoachingPrompt(user_input, ContextBlock(nodes))
                          q1 == [qr EXCEPT !.nodes = nodes,
                                           !.retrieved = TRUE,
                                           !.context = ContextBlock(nodes),
                                           !.prompt = prompt,
                                           !.completions = 1,
                                           !.calls = <<"retrieve", "complete">>,
                                           !.sent = <<prompt>>]
                          w2 == Effect(w1, "completion_call")
                      IN  IF fault = "llm"
                          THEN [w |-> w2, q |-> [q1 EXCEPT !.err = "ConnectionError: completion"]]
                          ELSE [w |-> w2, q |-> [q1 EXCEPT !.generated = <<reply>>,
                                                           !.value = <<reply>>]]

\* query answering from the completion service alone when retrieval failed.
QueryWithoutRetrieval(w, user_input, fault, reply) ==
    LET b == QueryBody(w, user_input, fault, reply)
    IN  IF b.q.err = "none" THEN b
        ELSE IF ~b.q.retrieved /\ w.rag.index.set
        THEN [w |-> Effect(b.w, "completion_call"),
              q |-> [b.q EXCEPT !.completions = 1,
                                !.calls = Append(@, "complete"),
                                !.sent = <<CoachingPrompt(user_input, <<>>)>>,
                                !.generated = <<reply>>,
                                !.value = <<reply>>]]
        ELSE [b EXCEPT !.q.value = <<ApologyPhrase, b.q.err>>]

\* query with an except clause that handles connection errors only.
QueryCatchConnectionOnly(w, user_input, fault, reply) ==
    LET b == QueryBody(w, user_input, fault, reply)
    IN  IF b.q.err = "none" THEN b
        ELSE IF b.q.err \in {"ConnectionError: embedding", "ConnectionError: completion"}
        THEN [b EXCEPT !.q.value = <<ApologyPhrase, b.q.err>>]
        ELSE [b EXCEPT !.q.outcome = "raised"]

\* query dropping the index when the body failed.
QueryDropIndex(w, user_input, fault, reply) ==
    LET b == QueryBody(w, user_input, fault, reply)
    IN  IF b.q.err = "none" THEN b
        ELSE [b EXCEPT !.q.value = <<ApologyPhrase, b.q.err>>,
                       !.w.rag.index = None]

\* query with a prompt that recalls the earlier exchanges of the process.
QueryWithMemory(w, user_input, fault, reply) ==
    LET b == QueryBody(w, user_input, fault, reply)
        recalled == b.q.prompt \o <<"Earlier in this conversation: [...]">>
        m == IF b.q.retrieved /\ "completion_call" \in w.effects
             THEN [b EXCEPT !.q.prompt = recalled, !.q.sent = <<recalled>>]
             ELSE b
    IN  IF m.q.err = "none" THEN m
        ELSE [m EXCEPT !.q.value = <<ApologyPhrase, m.q.err>>]

\* MindShiftRAG.query: except Exception turns every failure of the body into
\* the returned apology, which embeds the error text.
Query(w, user_input, fault, reply) ==
    LET b == QueryBody(w, user_input, fault, reply)
    IN  IF b.q.err = "none" THEN b
        ELSE [b EXCEPT !.q.value = <<ApologyPhrase, b.q.err>>]

----------------------------------------------------------------------------
(* SOMDataLoader and the demo pipeline *)

NewSom == [text_splitter |-> FALSE, embeddings |-> FALSE, vectorstore |-> None]

\* mkdir, Chroma.from_documents and persist(): the directory is made, the
\* collection opened or created, the chunks embedded and added batch by
\* batch (persist() writes nothing more: the client is persistent).
FromDocuments(w, run, fault) ==
    LET w0 == [w EXCEPT !.disk.dir = TRUE]
    IN  IF fault.at = "client" THEN Raise(w0, "ChromaError: client")
        ELSE LET w1 == OpenClient(w0)
             IN  IF fault.at = "collection" THEN Raise(w1, "ChromaError: collection")
                 ELSE WriteBatches(OpenCollection(w1, SomCollection), SomCollection,
                                   run, ChunkList(w.docs), fault)

\* SOMDataLoader.split_documents
SomSplitDocuments(w, fault) ==
    LET w1 == [w EXCEPT !.som.text_splitter = TRUE]
    IN  IF fault.at = "chunk" THEN Raise(w1, "SplitterError")
        ELSE Stage([w1 EXCEPT !.chunks = Len(ChunkList(w.docs))], "SPLIT")

\* SOMDataLoader.setup_embeddings
SomSetupEmbeddings(w) == Stage([w EXCEPT !.som.embeddings = TRUE], "EMBEDDINGS")

\* SOMDataLoader.create_vectorstore
SomCreateVectorstore(w, run, fault) ==
    LET w1 == FromDocuments([w EXCEPT !.som.embeddings = TRUE], run, fault)
    IN  IF w1.err # "none" THEN w1
        ELSE Stage([w1 EXCEPT !.som.vectorstore = Ref(SomCollection, run)], "VECTORSTORE")

\* run_pipeline going on to the vector store after a failed split.
SomRunPipelineContinue(w, run, fault) ==
    LET w1 == SomLoadDocuments(w)
    IN  IF w1.err # "none" THEN w1 ELSE
    LET w2 == SomSplitDocuments(w1, fault)
    IN  SomCreateVectorstore(SomSetupEmbeddings([w2 EXCEPT !.err = "none"]), run, fault)

\* The steps of SOMDataLoader.run_pipeline inside its try block.
SomRunPipeline(w, run, fault) ==
    LET w1 == SomLoadDocuments(w)
    IN  IF w1.err # "none" THEN w1 ELSE
    LET w2 == SomSplitDocuments(w1, fault)
    IN  IF w2.err # "none" THEN w2 ELSE
    SomCreateVectorstore(SomSetupEmbeddings(w2), run, fault)

\* The map run_pipeline returns: from the end of its try block when no step
\* raised, from its except clause otherwise.
NoResult ==
    [keys |-> {}, success |-> FALSE, error |-> <<>>, documents_loaded |-> <<>>,
     chunks_created |-> <<>>]

RunPipelineReturn(w) ==
    IF w.err = "none"
    THEN [keys |-> {"success", "documents_loaded", "chunks_created", "collection_stats"},
          success |-> TRUE, error |-> <<>>,
          documents_loaded |-> <<Len(w.docs)>>, chunks_created |-> <<w.chunks>>]
    ELSE [keys |-> {"success", "error"}, success |-> FALSE, error |-> <<w.err>>,
          documents_loaded |-> <<>>, chunks_created |-> <<>>]

\* SOMDataLoader.get_collection_stats
SomCollectionStats(w) ==
    IF ~w.som.vectorstore.set THEN [error |-> TRUE, total_documents |-> 0]
    ELSE [error |-> FALSE,
          total_documents |-> Cardinality(w.disk.coll[w.som.vectorstore.name].recs)]

\* split_documents of the demo: the average of the chunk sizes divides by
\* the number of chunks.
DemoSplitDocuments(w, fault) ==
    IF fault.at = "chunk" THEN Raise(w, "SplitterError")
    ELSE IF ChunkList(w.docs) = <<>> THEN Raise(w, "ZeroDivisionError: division by zero")
    ELSE Stage([w EXCEPT !.chunks = Len(ChunkList(w.docs))], "SPLIT")

\* create_embeddings_and_vectorstore of the demo
DemoCreateVectorstore(w, run, fault) ==
    LET w1 == FromDocuments(w, run, fault)
    IN  IF w1.err # "none" THEN w1 ELSE Stage(w1, "VECTORSTORE")

\* The steps of the demo's main inside its try block.
DemoPipeline(w, run, fault) ==
    LET w1 == DemoLoadDocuments(w)
    IN  IF w1.err # "none" THEN w1 ELSE
    LET w2 == DemoSplitDocuments(w1, fault)
    IN  IF w2.err # "none" THEN w2 ELSE
    DemoCreateVectorstore(w2, run, fault)

----------------------------------------------------------------------------
(* get_collection_stats of the three pipelines.  A returned map is a       *)
(* record of its key set and its entries (<<>>: the map has no such entry). *)

NoStatsCall ==
    [kind |-> "none", outcome |-> "none", unset |-> FALSE, countFailed |-> FALSE,
     keys |-> {}, error |-> <<>>, total_documents |-> <<>>]

\* The map of the except clause and of the test for a missing vector store.
StatsError(kind, unset, countFailed, e) ==
    [kind |-> kind, outcome |-> "returned", unset |-> unset,
     countFailed |-> countFailed, keys |-> {"error"}, error |-> <<e>>,
     total_documents |-> <<>>]

\* The map of the try block, its key set the one the pipeline writes.
StatsCounted(kind, keys, count) ==
    [kind |-> kind, outcome |-> "returned", unset |-> FALSE,
     countFailed |-> FALSE, keys |-> keys, error |-> <<>>,
     total_documents |-> <<count>>]

\* get_collection_stats opening the store first when it is not set up.
RagStatsCallOpening(w, countFails) ==
    LET w1 == IF w.rag.chroma_collection.set THEN w
              ELSE SetupChromadb(w, [at |-> "none", k |-> 0])
    IN  [w |-> w1,
         s |-> IF countFails
               THEN StatsError("rag", FALSE, TRUE, "ChromaError: count")
               ELSE StatsCounted("rag",
                        {"total_documents", "collection_name", "persist_directory"},
                        Cardinality(w1.disk.coll[RagCollection].recs))]

\* MindShiftRAG.get_collection_stats: count() on a collection that is None
\* raises inside the try block, as does a count() that fails.
RagStatsCall(w, countFails) ==
    [w |-> w,
     s |-> IF ~w.rag.chroma_collection.set
           THEN StatsError("rag", TRUE, FALSE, "AttributeError: 'NoneType' object")
           ELSE IF countFails
           THEN StatsError("rag", FALSE, TRUE, "ChromaError: count")
           ELSE StatsCounted("rag",
                    {"total_documents", "collection_name", "persist_directory"},
                    Cardinality(w.disk.coll[w.rag.chroma_collection.name].recs))]

\* SOMDataLoader.get_collection_stats: tests self.vectorstore first.
SomStatsCall(w, countFails) ==
    [w |-> w,
     s |-> IF ~w.som.vectorstore.set
           THEN StatsError("som", TRUE, FALSE, "Vector store not initialized")
           ELSE IF countFails
           THEN StatsError("som", FALSE, TRUE, "ChromaError: count")
           ELSE StatsCounted("som",
                    {"collection_name", "persist_directory", "total_documents",
                     "embedding_model", "chunk_size", "chunk_overlap"},
                    Cardinality(w.disk.coll[w.som.vectorstore.name].recs))]

\* get_collection_stats(vectorstore) of the demo: the attribute access on a
\* vectorstore that is None raises inside the try block.
DemoStatsCall(w, vectorstore, countFails) ==
    [w |-> w,
     s |-> IF ~vectorstore.set
           THEN StatsError("demo", TRUE, FALSE, "AttributeError: 'NoneType' object")
           ELSE IF countFails
           THEN StatsError("demo", FALSE, TRUE, "ChromaError: count")
           ELSE StatsCounted("demo",
                    {"collection_name", "total_documents", "embedding_model",
                     "persist_directory"},
                    Cardinality(w.disk.coll[vectorstore.name].recs))]

----------------------------------------------------------------------------
(* The splitters: RecursiveCharacterTextSplitter of SOMDataLoader and of   *)
(* the demo, SentenceSplitter of MindShiftRAG.  Here a text is a sequence  *)
(* of characters and a chunk is a text.                                    *)

\* characters of a document text, at most (one long text apart)
MaxTextLen == 5
\* chunk_size a caller gives, at most
MaxChunkSize == 3

Whitespace == {" ", "\n"}
Alphabet == {"a", "b"} \cup Whitespace

\* separators=["\n\n", "\n", " ", ""]
Separators == << <<"\n", "\n">>, <<"\n">>, <<" ">>, <<>> >>

DefaultChunkSize == 1000
DefaultChunkOverlap == 200
RagChunkSize == 512
RagChunkOverlap == 50
CustomCollection == "custom_collection"
CustomPersistDir == "./custom_db"

\* The content of a Document: the loaders keep a file only when its content
\* is non-blank; the text of a .docx file is its stripped paragraphs joined
\* by newlines, so it neither starts nor ends with whitespace.
Texts ==
    {t \in UNION {[1..n -> Alphabet] : n \in 1..MaxTextLen} :
        t[1] \notin Whitespace /\ t[Len(t)] \notin Whitespace}

\* A text of more characters than MindShiftRAG's chunk_size: words of four
\* letters with a space between them.
LongText == [i \in 1..(RagChunkSize + 2) |-> IF i % 5 = 0 THEN " " ELSE "a"]

\* str.strip()
Strip(s) ==
    LET keep == {i \in 1..Len(s) : s[i] \notin Whitespace}
    IN  IF keep = {} THEN <<>>
        ELSE SubSeq(s, CHOOSE i \in keep : \A j \in keep : i <= j,
                       CHOOSE i \in keep : \A j \in keep : i >= j)

\* "".join(pieces)
RECURSIVE Concat(_)
Concat(pieces) ==
    IF pieces = <<>> THEN <<>> ELSE Head(pieces) \o Concat(Tail(pieces))

\* re.search(separator, text)
Contains(t, sep) == \E i \in 1..Len(t) : IsPrefix(sep, SubSeq(t, i, Len(t)))

\* re.split(separator, text): the pieces between the matches of the
\* separator, found from the left and not overlapping.
RECURSIVE ReSplit(_, _, _)
ReSplit(t, sep, cur) ==
    IF t = <<>> THEN <<cur>>
    ELSE IF IsPrefix(sep, t)
    THEN <<cur>> \o ReSplit(SubSeq(t, Len(sep) + 1, Len(t)), sep, <<>>)
    ELSE ReSplit(Tail(t), sep, Append(cur, Head(t)))

\* A split that hands back the pieces last to first.
SplitReversed(t, sep) ==
    LET p == IF sep = <<>> THEN [i \in 1..Len(t) |-> <<t[i]>>]
             ELSE SelectSeq(ReSplit(t, sep, <<>>), LAMBDA s : s # <<>>)
    IN  [i \in 1..Len(p) |-> p[Len(p) + 1 - i]]

\* _split_text_with_regex with keep_separator=True: each separator stays at
\* the front of the piece after it; empty pieces are dropped; the empty
\* separator splits into characters.
SplitWithSeparator(t, sep) ==
    IF sep = <<>> THEN [i \in 1..Len(t) |-> <<t[i]>>]
    ELSE LET p == ReSplit(t, sep, <<>>)
             kept == <<p[1]>> \o [i \in 1..(Len(p) - 1) |-> sep \o p[i + 1]]
         IN  SelectSeq(kept, LAMBDA s : s # <<>>)

\* _join_docs: the pieces joined and stripped; a blank result is no chunk.
JoinDocs(cur) ==
    IF Strip(Concat(cur)) = <<>> THEN <<>> ELSE <<Strip(Concat(cur))>>

TotalLen(cur) == Len(Concat(cur))

\* A merge that keeps nothing of the emitted chunk.
PopAll(cur, len, S, O) == <<>>

\* The while loop of _merge_splits after a chunk was emitted: pieces are
\* popped from the front of current_doc while they hold more than
\* chunk_overlap characters, or while the next piece (of length len) would
\* not fit.  The merge separator is empty, so total is the length of the
\* pieces.
RECURSIVE PopOverlap(_, _, _, _)
PopOverlap(cur, len, S, O) ==
    IF TotalLen(cur) > O \/ (TotalLen(cur) + len > S /\ TotalLen(cur) > 0)
    THEN PopOverlap(Tail(cur), len, S, O)
    ELSE cur

\* _merge_splits(splits, ""): pieces are collected until the next one would
\* pass chunk_size; then the collected ones are emitted as a chunk and the
\* tail of them kept as the overlap of the next chunk.
RECURSIVE MergeSplits(_, _, _, _, _)
MergeSplits(splits, cur, docs, S, O) ==
    IF splits = <<>> THEN docs \o JoinDocs(cur)
    ELSE LET d == Head(splits)
         IN  IF TotalLen(cur) + Len(d) > S /\ cur # <<>>
             THEN MergeSplits(Tail(splits), Append(PopOverlap(cur, Len(d), S, O), d),
                              docs \o JoinDocs(cur), S, O)
             ELSE MergeSplits(Tail(splits), Append(cur, d), docs, S, O)

\* The separator _split_text works with: the first of the list that is
\* empty or occurs in the text.
PickSeparator(t, seps) ==
    CHOOSE i \in 1..Len(seps) :
        /\ seps[i] = <<>> \/ Contains(t, seps[i])
        /\ \A j \in 1..(i - 1) : seps[j] # <<>> /\ ~Contains(t, seps[j])

RECURSIVE SplitText(_, _, _, _)
RECURSIVE SplitPieces(_, _, _, _, _)

\* The for loop of _split_text: pieces shorter than chunk_size are collected
\* and merged; a piece that is not shorter is split again with the
\* separators that follow, or taken as it is when none follows.
SplitPieces(splits, good, rest, S, O) ==
    LET merged == IF good = <<>> THEN <<>> ELSE MergeSplits(good, <<>>, <<>>, S, O)
    IN  IF splits = <<>> THEN merged
        ELSE LET s == Head(splits)
             IN  IF Len(s) < S
                 THEN SplitPieces(Tail(splits), Append(good, s), rest, S, O)
                 ELSE merged
                        \o (IF rest = <<>> THEN <<s>> ELSE SplitText(s, rest, S, O))
                        \o SplitPieces(Tail(splits), <<>>, rest, S, O)

\* RecursiveCharacterTextSplitter._split_text
SplitText(t, seps, S, O) ==
    LET i == PickSeparator(t, seps)
        rest == IF seps[i] = <<>> THEN <<>> ELSE SubSeq(seps, i + 1, Len(seps))
    IN  SplitPieces(SplitWithSeparator(t, seps[i]), <<>>, rest, S, O)

\* tiktoken: a token covers a run of letters or one separator character
\* (how long a run one token covers does not matter here, only that a
\* token may cover more than one character).
TokenSize(t) ==
    Cardinality({i \in 1..Len(t) :
                    t[i] \in Whitespace \/ i = 1 \/ t[i - 1] \in Whitespace})

\* SentenceSplitter.split_text on a text of at most chunk_size tokens: the
\* text is one split, the chunk made of it is stripped.
SentenceSplit(t) == IF Strip(t) = <<>> THEN <<>> ELSE <<Strip(t)>>

\* A parameter the caller did not give is <<>>, one it gave is <<value>>.
NoConfig ==
    [chunk_size |-> <<>>, chunk_overlap |-> <<>>, top_k |-> <<>>,
     collection_name |-> <<>>, persist_directory |-> <<>>]

Given(p, default) == IF p = <<>> THEN default ELSE p[1]

NoOutcome ==
    [by |-> "none", chunk_size |-> 0, chunk_overlap |-> 0, top_k |-> 0,
     collection_name |-> "", persist_directory |-> "", chunks |-> <<>>,
     err |-> "none"]

\* RecursiveCharacterTextSplitter(chunk_size, chunk_overlap, ...): the
\* constructor refuses an overlap larger than the chunk size.
TextSplitter(o, t) ==
    IF o.chunk_overlap > o.chunk_size
    THEN [o EXCEPT !.err = "ValueError: larger chunk overlap than chunk size"]
    ELSE [o EXCEPT !.chunks = SplitText(t, Separators, o.chunk_size, o.chunk_overlap)]

\* SOMDataLoader(collection_name, persist_directory, chunk_size,
\* chunk_overlap): __init__ keeps the parameters, setup_text_splitter and
\* create_vectorstore use the kept ones; it has no retriever.
SomLoaderWith(c, t) ==
    TextSplitter([NoOutcome EXCEPT
                     !.by = "som",
                     !.chunk_size = Given(c.chunk_size, DefaultChunkSize),
                     !.chunk_overlap = Given(c.chunk_overlap, DefaultChunkOverlap),
                     !.collection_name = Given(c.collection_name, SomCollection),
                     !.persist_directory = Given(c.persist_directory, PersistDir)],
                 t)

\* The demo: split_documents(documents, chunk_size, chunk_overlap) and
\* create_embeddings_and_vectorstore(documents, collection_name,
\* persist_directory).
DemoWith(c, t) ==
    TextSplitter([NoOutcome EXCEPT
                     !.by = "demo",
                     !.chunk_size = Given(c.chunk_size, DefaultChunkSize),
                     !.chunk_overlap = Given(c.chunk_overlap, DefaultChunkOverlap),
                     !.collection_name = Given(c.collection_name, SomCollection),
                     !.persist_directory = Given(c.persist_directory, PersistDir)],
                 t)

\* MindShiftRAG(persist_dir): the only parameter; create_index builds
\* SentenceSplitter(chunk_size=512, chunk_overlap=50), the retrievers take
\* similarity_top_k=5, setup_chromadb names the collection.
RagWith(c, t) ==
    [NoOutcome EXCEPT
        !.by = "rag",
        !.chunk_size = RagChunkSize,
        !.chunk_overlap = RagChunkOverlap,
        !.top_k = TopK,
        !.collection_name = RagCollection,
        !.persist_directory = Given(c.persist_directory, PersistDir),
        !.chunks = SentenceSplit(t)]

----------------------------------------------------------------------------
(* The chat loop of main in mindshift_rag.py.  A line typed at the prompt  *)
(* is a sequence of characters.                                            *)

UpperCase == <<"A", "B", "C", "D", "E", "F", "G", "H", "I", "J", "K", "L", "M",
               "N", "O", "P", "Q", "R", "S", "T", "U", "V", "W", "X", "Y", "Z">>
LowerCase == <<"a", "b", "c", "d", "e", "f", "g", "h", "i", "j", "k", "l", "m",
               "n", "o", "p", "q", "r", "s", "t", "u", "v", "w", "x", "y", "z">>

\* str.lower()
Lower(s) ==
    [i \in 1..Len(s) |->
        IF \E k \in 1..Len(UpperCase) : UpperCase[k] = s[i]
        THEN LowerCase[CHOOSE k \in 1..Len(UpperCase) : UpperCase[k] = s[i]]
        ELSE s[i]]

\* The characters of a line as one string, the argument query gets.
RECURSIVE AsString(_)
AsString(s) == IF s = <<>> THEN "" ELSE Head(s) \o AsString(Tail(s))

\* ['quit', 'exit', 'bye']
ExitWords == {<<"q", "u", "i", "t">>, <<"e", "x", "i", "t">>, <<"b", "y", "e">>}

\* Lines a user may type: exit words as they are, in capitals and with
\* blanks around them, empty and blank lines, and other lines, one of them
\* holding an exit word.
RawInputs ==
    {<<"q", "u", "i", "t">>, <<" ", "Q", "u", "i", "t", " ">>,
     <<"E", "X", "I", "T">>, <<"b", "y", "e">>, <<"B", "y", "e", " ">>,
     <<>>, <<" ", " ">>,
     <<"h", "i">>, <<" ", "h", "i", " ">>, <<"q", "u", "i", "t", " ", "i", "t">>}

\* What input() hands back or raises: a line, or the end of the input.
ConsoleLines ==
    {[eof |-> FALSE, raw |-> r] : r \in RawInputs} \cup {[eof |-> TRUE, raw |-> <<>>]}

NoTurn ==
    [eof |-> FALSE, raw |-> <<>>, user_input |-> <<>>, step |-> "none",
     queries |-> 0]

\* A turn of the loop that compares the line with the exit words as typed.
ChatLoopTurnAsTyped(w, line, fault, reply) ==
    LET user_input == Strip(line.raw)
        t0 == [NoTurn EXCEPT !.eof = line.eof, !.raw = line.raw]
        t1 == [t0 EXCEPT !.user_input = user_input]
    IN  IF line.eof
        THEN [w |-> w, q |-> NoQuery, turn |-> [t0 EXCEPT !.step = "error"]]
        ELSE IF line.raw \in ExitWords
        THEN [w |-> w, q |-> NoQuery, turn |-> [t1 EXCEPT !.step = "break"]]
        ELSE IF user_input = <<>>
        THEN [w |-> w, q |-> NoQuery, turn |-> [t1 EXCEPT !.step = "continue"]]
        ELSE LET b == Query(w, AsString(user_input), fault, reply)
             IN  [w |-> b.w, q |-> b.q,
                  turn |-> [t1 EXCEPT !.step = "query", !.queries = 1]]

\* One turn of `while True`: input() (which raises at the end of the input:
\* the exception leaves the loop and is reported by main), strip(), the
\* test for an exit word in lower case, the test for an empty line, and
\* otherwise one call of query, whose answer is printed.
ChatLoopTurn(w, line, fault, reply) ==
    LET user_input == Strip(line.raw)
        t0 == [NoTurn EXCEPT !.eof = line.eof, !.raw = line.raw]
        t1 == [t0 EXCEPT !.user_input = user_input]
    IN  IF line.eof
        THEN [w |-> w, q |-> NoQuery, turn |-> [t0 EXCEPT !.step = "error"]]
        ELSE IF Lower(user_input) \in ExitWords
        THEN [w |-> w, q |-> NoQuery, turn |-> [t1 EXCEPT !.step = "break"]]
        ELSE IF user_input = <<>>
        THEN [w |-> w, q |-> NoQuery, turn |-> [t1 EXCEPT !.step = "continue"]]
        ELSE LET b == Query(w, AsString(user_input), fault, reply)
             IN  [w |-> b.w, q |-> b.q,
                  turn |-> [t1 EXCEPT !.step = "query", !.queries = 1]]

----------------------------------------------------------------------------
(* The web front end, streamlit_app.py: the server runs main once for      *)
(* every interaction of a browser session, each session in a thread of its *)
(* own; the MindShiftRAG object is built once and shared by all sessions   *)
(* (st.cache_resource); st.session_state.messages is kept per session.     *)

Sessions == {"s1", "s2"}

WebApology == "I apologize, but I encountered an error: "

\* A session: where its script run stands ("idle": no run, "query": inside
\* rag_system.query), the prompt of the run, whether a rerun was requested
\* during the run, and st.session_state.messages.
NoSessions ==
    [s \in Sessions |-> [pc |-> "idle", prompt |-> "", rerun |-> FALSE,
                         messages |-> <<>>]]

Message(role, content) == [role |-> role, content |-> content]

\* The prompts submitted so far: the user messages of all sessions.
TotalPrompts(ss) ==
    LET n(s) == Cardinality({i \in 1..Len(ss[s].messages) :
                                ss[s].messages[i].role = "user"})
    IN  n("s1") + n("s2")

----------------------------------------------------------------------------
(* The Supabase scripts: SupabaseAuthFixer (fix_auth_comprehensive.py) and *)
(* SupabaseUserManager (fix_auth.py).  The project holds, per email, an    *)
(* auth user or none and a profile row or none.  A call works on a context *)
(* [supa, requests]: the project and the log of the requests sent.         *)

Emails == {"ann@example.org", "bob@example.org"}

\* The display_name argument: None, the empty string, a name.
DisplayNames == {<<>>, <<"">>, <<"Ann">>}

\* `if display_name:`
Truthy(display_name) == display_name # <<>> /\ display_name[1] # ""

\* What comes of a request: a 2xx response, another status, an exception of
\* requests (no connection, timeout).
Outcomes == {"ok", "http_error", "exception"}

\* What the operator types at "Enter choice (1 or 2): ", or the end of the
\* input.
ChoiceLines ==
    {[eof |-> FALSE, raw |-> r] :
        r \in {<<"1">>, <<"2">>, <<" ", "2", " ">>, <<"2", "2">>, <<"3">>, <<>>}}
        \cup {[eof |-> TRUE, raw |-> <<>>]}

NoSupabase == [e \in Emails |-> [auth |-> FALSE, profile |-> FALSE]]

NoResponse == [success |-> FALSE, issue |-> "", action |-> "", error |-> ""]

NoFix ==
    [by |-> "none", email |-> "", display_name |-> <<>>, outcome |-> "none",
     auth_exists |-> FALSE, profile_exists |-> FALSE, choice |-> <<>>,
     deleted |-> FALSE, requests |-> <<>>, result |-> NoResponse]

Request(c, method, table, email) ==
    [c EXCEPT !.requests = Append(@, [method |-> method, table |-> table,
                                      email |-> email])]

\* The text of the error an unsuccessful request is reported with.
ErrorText(outcome) ==
    IF outcome = "http_error" THEN "HTTP 4xx/5xx" ELSE "ConnectionError"

\* check_auth_user: GET auth/v1/admin/users; every failure is reported as
\* exists = False.
CheckAuthUser(c, email, outcome) ==
    [c |-> Request(c, "GET", "auth.users", email),
     exists |-> outcome = "ok" /\ c.supa[email].auth]

\* check_profile_user and check_user_exists: GET rest/v1/profiles.
CheckProfileUser(c, email, outcome) ==
    [c |-> Request(c, "GET", "profiles", email),
     exists |-> outcome = "ok" /\ c.supa[email].profile]

\* requests.post(rest/v1/profiles): a 2xx response means the row is there.
PostProfile(c, email, outcome) ==
    LET c1 == Request(c, "POST", "profiles", email)
    IN  [c |-> IF outcome = "ok" THEN [c1 EXCEPT !.supa[email].profile = TRUE] ELSE c1,
         success |-> outcome = "ok",
         error |-> IF outcome = "ok" THEN "" ELSE ErrorText(outcome)]

\* create_profile_for_auth_user: checks the auth user again and posts the
\* profile with the id of the auth user.
CreateProfileForAuthUser(c, email, display_name, net) ==
    LET a == CheckAuthUser(c, email, net.auth2)
    IN  IF ~a.exists
        THEN [c |-> a.c, success |-> FALSE,
              error |-> "User does not exist in auth.users table"]
        ELSE PostProfile(a.c, email, net.post)

\* The outcome of fix_user_authentication for what the two checks reported.
AuthFix(c, email, display_name, a, p, result) ==
    [NoFix EXCEPT !.by = "auth_fixer", !.email = email,
                  !.display_name = display_name, !.outcome = "returned",
                  !.auth_exists = a, !.profile_exists = p,
                  !.requests = c.requests, !.result = result]

\* fix_user_authentication creating the profile whenever none was reported.
FixUserAuthenticationAnyMissing(c, email, display_name, net) ==
    LET a == CheckAuthUser(c, email, net.auth1)
        p == CheckProfileUser(a.c, email, net.profile)
    IN  IF ~p.exists
        THEN LET r == CreateProfileForAuthUser(p.c, email, display_name, net)
             IN  [c |-> r.c,
                  fix |-> AuthFix(r.c, email, display_name, a.exists, p.exists,
                             IF r.success
                             THEN [NoResponse EXCEPT !.success = TRUE,
                                                     !.issue = "missing_profile",
                                                     !.action = "created_profile"]
                             ELSE [NoResponse EXCEPT !.error = r.error])]
        ELSE [c |-> p.c,
              fix |-> AuthFix(p.c, email, display_name, a.exists, p.exists,
                         [NoResponse EXCEPT !.success = TRUE, !.issue = "user_exists",
                                            !.action = "can_signin"])]

\* SupabaseAuthFixer.fix_user_authentication
FixUserAuthentication(c, email, display_name, net) ==
    LET a == CheckAuthUser(c, email, net.auth1)
        p == CheckProfileUser(a.c, email, net.profile)
    IN  IF a.exists /\ ~p.exists
        THEN LET r == CreateProfileForAuthUser(p.c, email, display_name, net)
             IN  [c |-> r.c,
                  fix |-> AuthFix(r.c, email, display_name, a.exists, p.exists,
                             IF r.success
                             THEN [NoResponse EXCEPT !.success = TRUE,
                                                     !.issue = "missing_profile",
                                                     !.action = "created_profile"]
                             ELSE [NoResponse EXCEPT !.error = r.error])]
        ELSE [c |-> p.c,
              fix |-> AuthFix(p.c, email, display_name, a.exists, p.exists,
                         IF ~a.exists /\ ~p.exists
                         THEN [NoResponse EXCEPT !.success = TRUE,
                                                 !.issue = "user_not_exists",
                                                 !.action = "can_signup"]
                         ELSE IF a.exists /\ p.exists
                         THEN [NoResponse EXCEPT !.success = TRUE,
                                                 !.issue = "user_exists",
                                                 !.action = "can_signin"]
                         ELSE [NoResponse EXCEPT !.issue = "unknown",
                                                 !.error = "Unknown authentication state"])]

\* delete_user_profile: requests.delete(rest/v1/profiles)
DeleteUserProfile(c, email, outcome) ==
    LET c1 == Request(c, "DELETE", "profiles", email)
    IN  [c |-> IF outcome = "ok" THEN [c1 EXCEPT !.supa[email].profile = FALSE] ELSE c1,
         success |-> outcome = "ok",
         error |-> IF outcome = "ok" THEN "" ELSE ErrorText(outcome)]

\* create_user_profile: requests.post(rest/v1/profiles)
CreateUserProfile(c, email, display_name, outcome) ==
    PostProfile(c, email, outcome)

\* The outcome of fix_user_account; choice is the line the operator typed.
AccountFix(c, email, display_name, exists, choice, deleted, outcome, result) ==
    [NoFix EXCEPT !.by = "user_manager", !.email = email,
                  !.display_name = display_name, !.outcome = outcome,
                  !.profile_exists = exists, !.choice = choice,
                  !.deleted = deleted, !.requests = c.requests, !.result = result]

\* The creation of a profile at the end of a branch of fix_user_account.
CreateOrReport(c, email, display_name, exists, choice, deleted, made, opt) ==
    IF Truthy(display_name)
    THEN LET r == CreateUserProfile(c, email, display_name, opt.create)
         IN  [c |-> r.c,
              fix |-> AccountFix(r.c, email, display_name, exists, choice, deleted,
                         "returned",
                         IF r.success
                         THEN [NoResponse EXCEPT !.success = TRUE, !.action = made]
                         ELSE [NoResponse EXCEPT !.error = r.error])]
    ELSE [c |-> c,
          fix |-> AccountFix(c, email, display_name, exists, choice, deleted,
                     "returned",
                     [NoResponse EXCEPT !.success = TRUE, !.action = opt.action])]

\* fix_user_account deleting on every choice but 1.
FixUserAccountUnlessKeep(c, email, display_name, line, net) ==
    LET u == CheckProfileUser(c, email, net.check)
        choice == Strip(line.raw)
    IN  IF ~u.exists
        THEN CreateOrReport(u.c, email, display_name, FALSE, <<>>, FALSE, "created",
                            [create |-> net.create, action |-> "not_found"])
        ELSE IF line.eof
        THEN [c |-> u.c,
              fix |-> AccountFix(u.c, email, display_name, TRUE, <<>>, FALSE,
                                 "raised", NoResponse)]
        ELSE IF choice # <<"1">>
        THEN LET d == DeleteUserProfile(u.c, email, net.delete)
             IN  IF d.success
                 THEN CreateOrReport(d.c, email, display_name, TRUE, line.raw, TRUE,
                                     "recreated",
                                     [create |-> net.create, action |-> "deleted"])
                 ELSE [c |-> d.c,
                       fix |-> AccountFix(d.c, email, display_name, TRUE, line.raw,
                                  FALSE, "returned",
                                  [NoResponse EXCEPT !.error = d.error])]
        ELSE [c |-> u.c,
              fix |-> AccountFix(u.c, email, display_name, TRUE, line.raw, FALSE,
                         "returned",
                         [NoResponse EXCEPT !.success = TRUE,
                                            !.action = "kept_existing"])]

\* SupabaseUserManager.fix_user_account: input() is called only when the
\* profile was reported existing; its exception leaves the method.
FixUserAccount(c, email, display_name, line, net) ==
    LET u == CheckProfileUser(c, email, net.check)
        choice == Strip(line.raw)
    IN  IF ~u.exists
        THEN CreateOrReport(u.c, email, display_name, FALSE, <<>>, FALSE, "created",
                            [create |-> net.create, action |-> "not_found"])
        ELSE IF line.eof
        THEN [c |-> u.c,
              fix |-> AccountFix(u.c, email, display_name, TRUE, <<>>, FALSE,
                                 "raised", NoResponse)]
        ELSE IF choice = <<"2">>
        THEN LET d == DeleteUserProfile(u.c, email, net.delete)
             IN  IF d.success
                 THEN CreateOrReport(d.c, email, display_name, TRUE, line.raw, TRUE,
                                     "recreated",
                                     [create |-> net.create, action |-> "deleted"])
                 ELSE [c |-> d.c,
                       fix |-> AccountFix(d.c, email, display_name, TRUE, line.raw,
                                  FALSE, "returned",
                                  [NoResponse EXCEPT !.error = d.error])]
        ELSE [c |-> u.c,
              fix |-> AccountFix(u.c, email, display_name, TRUE, line.raw, FALSE,
                         "returned",
                         [NoResponse EXCEPT !.success = TRUE,
                                            !.action = "kept_existing"])]

----------------------------------------------------------------------------
(* The state machine *)

NoStats == [error |-> TRUE, total_documents |-> 0]

NoRun ==
    [kind |-> "none", run |-> 0, ok |-> FALSE, err |-> "none", stages |-> <<>>,
     docs |-> <<>>, loadReached |-> FALSE, chunks |-> 0, created |-> {},
     openCount |-> <<>>, stats |-> NoStats, result |-> NoResult]

RunRecord(kind, run, w, stats) ==
    [kind |-> kind, run |-> run, ok |-> (w.err = "none"), err |-> w.err,
     stages |-> w.stages, docs |-> w.docs, loadReached |-> w.loadReached,
     chunks |-> w.chunks, created |-> w.created, openCount |-> w.openCount,
     stats |-> stats,
     result |-> IF kind = "som" THEN RunPipelineReturn(w) ELSE NoResult]

EntryPoints == {"rag_main", "rag_lib", "som_main", "som_lib", "demo_main"}

Init ==
    /\ apiKey \in BOOLEAN
    /\ docsDirExists \in BOOLEAN
    /\ docxAvailable \in BOOLEAN
    /\ files \in Directories
    /\ ~docsDirExists => \A f \in FileNames : files[f].st = "missing"
    /\ disk = [dir |-> FALSE, coll |-> [c \in CollectionNames |-> EmptyCollection]]
    /\ entry = "none"
    /\ rag = NewRag
    /\ som = NewSom
    /\ effects = {}
    /\ runs = 0
    /\ report = "none"
    /\ lastOp = "init"
    /\ lastRun = NoRun
    /\ lastQuery = NoQuery
    /\ text = <<>>
    /\ cfg = NoConfig
    /\ out = NoOutcome
    /\ lastStats = NoStatsCall
    /\ lastTurn = NoTurn
    /\ sessions = NoSessions
    /\ supa = NoSupabase
    /\ lastFix = NoFix

\* What an entry point reports before it does anything else: the main
\* functions test the credential (the command-line chat also the documents
\* directory), SOMDataLoader.__init__ tests the credential,
\* MindShiftRAG.__init__ tests nothing.
StartReport(e) ==
    CASE e = "rag_main" ->
            IF ~apiKey THEN "OPENAI_API_KEY not set"
            ELSE IF ~docsDirExists THEN "Documents directory not found"
            ELSE "none"
      [] e = "rag_lib" -> "none"
      [] OTHER -> IF ~apiKey THEN "OPENAI_API_KEY not set" ELSE "none"

\* A process starts at entry point e and constructs its object.
Start(e) ==
    /\ entry = "none"
    /\ entry' = IF StartReport(e) = "none" THEN e ELSE "none"
    /\ report' = StartReport(e)
    /\ effects' = {}
    /\ rag' = NewRag
    /\ som' = NewSom
    /\ lastRun' = NoRun
    /\ lastQuery' = NoQuery
    /\ lastOp' = "start"
    /\ lastStats' = NoStatsCall
    /\ lastTurn' = NoTurn
    /\ UNCHANGED <<splitVars, webVars, authVars, env, disk, runs>>

\* The process ends (the chat loop is left, the caller returns).
Exit ==
    /\ entry \in {"rag_chat", "rag_lib", "som_lib"}
    /\ entry' = "none"
    /\ lastRun' = NoRun
    /\ lastQuery' = NoQuery
    /\ lastOp' = "exit"
    /\ lastStats' = NoStatsCall
    /\ lastTurn' = NoTurn
    /\ UNCHANGED <<splitVars, webVars, authVars, env, disk, rag, som, effects, runs, report>>

\* initialize_system, called by main (which then reads the statistics and
\* enters the chat loop, or reports the exception and ends) or by a caller
\* of the class.
RagInitialize ==
    /\ entry \in {"rag_main", "rag_lib"}
    /\ runs < MaxRuns
    /\ \E fault \in BuildFaults :
        LET w == InitializeSystem(World, runs + 1, fault)
        IN  /\ rag' = w.rag
            /\ disk' = w.disk
            /\ effects' = w.effects
            /\ lastRun' = RunRecord("rag", runs + 1, w, GetCollectionStats(w))
            /\ entry' = IF entry = "rag_lib" THEN entry
                        ELSE IF w.err = "none" THEN "rag_chat" ELSE "none"
    /\ runs' = runs + 1
    /\ lastQuery' = NoQuery
    /\ lastOp' = "initialize_system"
    /\ lastStats' = NoStatsCall
    /\ lastTurn' = NoTurn
    /\ UNCHANGED <<splitVars, webVars, authVars, env, som, report>>

\* One call of query, from the chat loop or from a caller of the class.
RagQuery ==
    /\ entry \in {"rag_chat", "rag_lib"}
    /\ \E user_input \in UserInputs, fault \in QueryFaults, reply \in Replies :
        LET b == Query(World, user_input, fault, reply)
        IN  /\ rag' = b.w.rag
            /\ disk' = b.w.disk
            /\ effects' = b.w.effects
            /\ lastQuery' = b.q
    /\ lastRun' = NoRun
    /\ lastOp' = "query"
    /\ lastStats' = NoStatsCall
    /\ lastTurn' = NoTurn
    /\ UNCHANGED <<splitVars, webVars, authVars, env, entry, som, runs, report>>

\* run_pipeline: every exception is caught and returned as success = False.
SomRun ==
    /\ entry \in {"som_main", "som_lib"}
    /\ runs < MaxRuns
    /\ \E fault \in {f \in BuildFaults : f.at # "engine"} :
        LET w == SomRunPipeline(World, runs + 1, fault)
        IN  /\ som' = w.som
            /\ disk' = w.disk
            /\ effects' = w.effects
            /\ lastRun' = RunRecord("som", runs + 1, w,
                                    IF w.err = "none" THEN SomCollectionStats(w) ELSE NoStats)
    /\ entry' = IF entry = "som_lib" THEN entry ELSE "none"
    /\ runs' = runs + 1
    /\ lastQuery' = NoQuery
    /\ lastOp' = "run_pipeline"
    /\ lastStats' = NoStatsCall
    /\ lastTurn' = NoTurn
    /\ UNCHANGED <<splitVars, webVars, authVars, env, rag, report>>

\* The demo's main after its credential test.
DemoRun ==
    /\ entry = "demo_main"
    /\ runs < MaxRuns
    /\ \E fault \in {f \in BuildFaults : f.at # "engine"} :
        LET w == DemoPipeline(World, runs + 1, fault)
        IN  /\ disk' = w.disk
            /\ effects' = w.effects
            /\ lastRun' = RunRecord("demo", runs + 1, w,
                                    IF w.err = "none"
                                    THEN [error |-> FALSE,
                                          total_documents |->
                                              Cardinality(w.disk.coll[SomCollection].recs)]
                                    ELSE NoStats)
    /\ entry' = "none"
    /\ runs' = runs + 1
    /\ lastQuery' = NoQuery
    /\ lastOp' = "demo_main"
    /\ lastStats' = NoStatsCall
    /\ lastTurn' = NoTurn
    /\ UNCHANGED <<splitVars, webVars, authVars, env, rag, som, report>>

\* A caller of a class (or of the demo module, handing it the loader's
\* vector store) asks for the statistics, at any time after construction.
CollectionStats ==
    /\ entry \in {"rag_lib", "som_lib"}
    /\ \E countFails \in BOOLEAN, kind \in {"rag", "som", "demo"} :
        /\ kind = "rag" <=> entry = "rag_lib"
        /\ LET c == CASE kind = "rag" -> RagStatsCall(World, countFails)
                      [] kind = "som" -> SomStatsCall(World, countFails)
                      [] OTHER -> DemoStatsCall(World, som.vectorstore, countFails)
           IN  /\ rag' = c.w.rag
               /\ som' = c.w.som
               /\ disk' = c.w.disk
               /\ effects' = c.w.effects
               /\ lastStats' = c.s
    /\ lastRun' = NoRun
    /\ lastQuery' = NoQuery
    /\ lastTurn' = NoTurn
    /\ lastOp' = "get_collection_stats"
    /\ UNCHANGED <<splitVars, webVars, authVars, env, entry, runs, report>>

\* An administrator removes the records of a collection (the pipeline
\* itself never deletes).
AdminDelete(c) ==
    /\ disk.coll[c].recs # {}
    /\ disk' = [disk EXCEPT !.coll[c].recs = {}]
    /\ lastRun' = NoRun
    /\ lastQuery' = NoQuery
    /\ lastOp' = "admin_delete"
    /\ lastStats' = NoStatsCall
    /\ lastTurn' = NoTurn
    /\ UNCHANGED <<splitVars, webVars, authVars, env, entry, rag, som, effects, runs, report>>

Next ==
    \/ \E e \in EntryPoints : Start(e)
    \/ Exit
    \/ RagInitialize
    \/ RagQuery
    \/ SomRun
    \/ DemoRun
    \/ CollectionStats
    \/ \E c \in CollectionNames : AdminDelete(c)

Spec == Init /\ [][Next]_vars

----------------------------------------------------------------------------
(* The command-line chat on its own: main tests the credential and the     *)
(* documents directory, builds the index and runs the chat loop line by    *)
(* line.                                                                   *)

\* One turn of the chat loop: the loop goes on after an empty line and
\* after a query, and the process ends after an exit word and when input()
\* raised.
ChatTurn ==
    /\ entry = "rag_chat"
    /\ \E line \in ConsoleLines, fault \in QueryFaults, reply \in Replies :
        LET t == ChatLoopTurn(World, line, fault, reply)
        IN  /\ rag' = t.w.rag
            /\ disk' = t.w.disk
            /\ effects' = t.w.effects
            /\ lastQuery' = t.q
            /\ lastTurn' = t.turn
            /\ entry' = IF t.turn.step \in {"break", "error"} THEN "none" ELSE entry
            /\ lastOp' = IF t.turn.step = "query" THEN "query" ELSE "chat"
    /\ lastRun' = NoRun
    /\ lastStats' = NoStatsCall
    /\ UNCHANGED <<splitVars, webVars, authVars, env, som, runs, report>>

ChatNext ==
    \/ Start("rag_main")
    \/ RagInitialize
    \/ ChatTurn

ChatSpec == Init /\ [][ChatNext]_vars

----------------------------------------------------------------------------
(* The web front end as a state machine.                                   *)

\* The server is started where the documents directory is missing, or
\* holds documents that all have text.
WebInit ==
    /\ Init
    /\ docxAvailable
    /\ docsDirExists => \A f \in FileNames : files[f].st = "text"

\* The first script run that reaches initialize_rag_system (main has tested
\* the credential): the object is built and cached, or None is cached when
\* the documents directory is missing or initialize_system raised.
WebStart ==
    /\ entry = "none"
    /\ apiKey
    /\ runs < MaxRuns
    /\ \E fault \in BuildFaults :
        LET w == IF docsDirExists THEN InitializeSystem(World, runs + 1, fault)
                 ELSE Raise(World, "Documents directory not found")
        IN  /\ rag' = w.rag
            /\ disk' = w.disk
            /\ effects' = w.effects
            /\ lastRun' = RunRecord("rag", runs + 1, w, GetCollectionStats(w))
            /\ entry' = IF w.err = "none" THEN "web" ELSE "web_failed"
    /\ runs' = runs + 1
    /\ lastQuery' = NoQuery
    /\ lastOp' = "initialize_rag_system"
    /\ UNCHANGED <<splitVars, authVars, sessions, env, som, report, lastStats, lastTurn>>

\* A session submits a prompt: its script run appends the user message and
\* calls rag_system.query(prompt) on the shared object.
WebSubmit(s, prompt) ==
    /\ entry = "web"
    /\ sessions[s].pc = "idle"
    /\ TotalPrompts(sessions) < MaxPrompts
    /\ sessions' = [sessions EXCEPT
                       ![s].messages = Append(@, Message("user", <<prompt>>)),
                       ![s].prompt = prompt,
                       ![s].pc = "query"]
    /\ lastRun' = NoRun
    /\ lastQuery' = NoQuery
    /\ lastOp' = "submit"
    /\ UNCHANGED <<splitVars, authVars, env, disk, entry, rag, som, effects, runs,
                   report, lastStats, lastTurn>>

\* The user of a session clicks a button or submits again while its script
\* run is inside query: the server asks the run to stop for a rerun.
WebInteract(s) ==
    /\ sessions[s].pc = "query"
    /\ ~sessions[s].rerun
    /\ sessions' = [sessions EXCEPT ![s].rerun = TRUE]
    /\ lastRun' = NoRun
    /\ lastQuery' = NoQuery
    /\ lastOp' = "interact"
    /\ UNCHANGED <<splitVars, authVars, env, disk, entry, rag, som, effects, runs,
                   report, lastStats, lastTurn>>

\* query returns to the script run of a session.  st.markdown(response)
\* raises the rerun exception when a rerun was requested (it is not an
\* Exception, so the run ends there); otherwise the response is shown and
\* appended, or, when showing it raised, the apology of the except clause.
WebAnswer(s) ==
    /\ sessions[s].pc = "query"
    /\ \E fault \in QueryFaults, reply \in Replies, shown \in BOOLEAN :
        LET b == Query(World, sessions[s].prompt, fault, reply)
            said == IF shown THEN b.q.value
                    ELSE <<WebApology, "StreamlitAPIException">>
        IN  /\ rag' = b.w.rag
            /\ disk' = b.w.disk
            /\ effects' = b.w.effects
            /\ lastQuery' = b.q
            /\ sessions' = [sessions EXCEPT
                               ![s].messages = IF sessions[s].rerun THEN @
                                               ELSE Append(@, Message("assistant", said)),
                               ![s].prompt = "",
                               ![s].rerun = FALSE,
                               ![s].pc = "idle"]
    /\ lastRun' = NoRun
    /\ lastOp' = "query"
    /\ UNCHANGED <<splitVars, authVars, env, entry, som, runs, report, lastStats,
                   lastTurn>>

WebNext ==
    \/ WebStart
    \/ \E s \in Sessions, prompt \in UserInputs : WebSubmit(s, prompt)
    \/ \E s \in Sessions : WebInteract(s)
    \/ \E s \in Sessions : WebAnswer(s)

WebSpec == WebInit /\ [][WebNext]_vars

----------------------------------------------------------------------------
(* Calls of the splitters and of the constructors, on their own: a caller  *)
(* hands a text and its parameters to one of the three pipelines.          *)

\* No process runs and nothing is stored.
PipelineIdle ==
    /\ apiKey = TRUE
    /\ docsDirExists = TRUE
    /\ docxAvailable = TRUE
    /\ files = [f \in FileNames |-> [st |-> "missing", n |-> 0]]
    /\ disk = [dir |-> FALSE, coll |-> [c \in CollectionNames |-> EmptyCollection]]
    /\ entry = "none"
    /\ rag = NewRag
    /\ som = NewSom
    /\ effects = {}
    /\ runs = 0
    /\ report = "none"
    /\ lastOp = "init"
    /\ lastRun = NoRun
    /\ lastQuery = NoQuery
    /\ lastStats = NoStatsCall
    /\ lastTurn = NoTurn

\* The splitter parameters a caller may give: both or none.
SplitterConfigs ==
    {NoConfig} \cup
    {[NoConfig EXCEPT !.chunk_size = <<S>>, !.chunk_overlap = <<O>>] :
        S \in 1..MaxChunkSize, O \in 0..MaxChunkSize}

\* Every choice of parameters given and not given.
Configs ==
    {[chunk_size |-> s, chunk_overlap |-> o, top_k |-> k,
      collection_name |-> n, persist_directory |-> d] :
        s \in {<<>>} \cup {<<S>> : S \in 1..MaxChunkSize},
        o \in {<<>>} \cup {<<O>> : O \in 0..MaxChunkSize},
        k \in {<<>>, <<1>>, <<TopK + 1>>},
        n \in {<<>>, <<CustomCollection>>},
        d \in {<<>>, <<CustomPersistDir>>}}

SplitInit ==
    /\ PipelineIdle
    /\ sessions = NoSessions
    /\ supa = NoSupabase
    /\ lastFix = NoFix
    /\ text \in Texts \cup {LongText}
    /\ cfg \in SplitterConfigs
    /\ out = NoOutcome

ConfigInit ==
    /\ PipelineIdle
    /\ sessions = NoSessions
    /\ supa = NoSupabase
    /\ lastFix = NoFix
    /\ text = <<"a", " ", "b">>
    /\ cfg \in Configs
    /\ out = NoOutcome

\* SOMDataLoader(...).split_documents on a document with this text.  (The
\* recursive splitter is evaluated on the texts of up to MaxTextLen
\* characters.)
SomSplit ==
    /\ out.by = "none"
    /\ Len(text) <= MaxTextLen
    /\ out' = SomLoaderWith(cfg, text)
    /\ UNCHANGED <<text, cfg, pipeVars, webVars, authVars>>

\* split_documents of the demo on a document with this text.
DemoSplit ==
    /\ out.by = "none"
    /\ Len(text) <= MaxTextLen
    /\ out' = DemoWith(cfg, text)
    /\ UNCHANGED <<text, cfg, pipeVars, webVars, authVars>>

\* MindShiftRAG(...).create_index on a document with this text; the text
\* holds no more tokens than the splitter's chunk_size.
RagSplit ==
    /\ out.by = "none"
    /\ TokenSize(text) <= RagChunkSize
    /\ out' = RagWith(cfg, text)
    /\ UNCHANGED <<text, cfg, pipeVars, webVars, authVars>>

SplitNext == SomSplit \/ DemoSplit \/ RagSplit

SplitSpec == SplitInit /\ [][SplitNext]_vars

ConfigSpec == ConfigInit /\ [][SplitNext]_vars

----------------------------------------------------------------------------
(* The Supabase scripts as a state machine: an operator runs one of the    *)
(* two scripts for an email, against a project in any state.               *)

AuthInit ==
    /\ PipelineIdle
    /\ text = <<>>
    /\ cfg = NoConfig
    /\ out = NoOutcome
    /\ sessions = NoSessions
    /\ supa \in [Emails -> [auth : BOOLEAN, profile : BOOLEAN]]
    /\ lastFix = NoFix

\* main of fix_auth_comprehensive.py
FixAuthentication ==
    /\ \E email \in Emails, display_name \in DisplayNames,
          net \in [auth1 : Outcomes, profile : Outcomes, auth2 : Outcomes,
                   post : Outcomes] :
        LET f == FixUserAuthentication([supa |-> supa, requests |-> <<>>],
                                       email, display_name, net)
        IN  /\ supa' = f.c.supa
            /\ lastFix' = f.fix
    /\ UNCHANGED <<pipeVars, splitVars, webVars>>

\* main of fix_auth.py without --check-only
FixAccount ==
    /\ \E email \in Emails, display_name \in DisplayNames, line \in ChoiceLines,
          net \in [check : Outcomes, delete : Outcomes, create : Outcomes] :
        LET f == FixUserAccount([supa |-> supa, requests |-> <<>>],
                                email, display_name, line, net)
        IN  /\ supa' = f.c.supa
            /\ lastFix' = f.fix
    /\ UNCHANGED <<pipeVars, splitVars, webVars>>

AuthNext == FixAuthentication \/ FixAccount

AuthSpec == AuthInit /\ [][AuthNext]_vars

----------------------------------------------------------------------------
(* Properties *)

\* The build states of the specification, in order.
BuildOrder == <<"STORE_READY", "DOCUMENTS_LOADED", "INDEX_BUILT", "QUERY_READY">>

\* The collection a pipeline writes to.
CollectionOf(kind) == IF kind = "rag" THEN RagCollection ELSE SomCollection

\* A loader handles .docx files when python-docx imports; MindShiftRAG's
\* loader also handles .txt files.
Supported(kind, f) ==
    \/ Ext(f) = "docx" /\ docxAvailable
    \/ Ext(f) = "txt" /\ kind = "rag"

\* The files a loader can turn into a Document.
Usable(kind) ==
    {f \in FileNames : Supported(kind, f) /\ files[f].st = "text"}

\* The records the last run wrote that are in its collection now.
WrittenByLastRun ==
    {r \in disk.coll[CollectionOf(lastRun.kind)].recs : r.run = lastRun.run}

StartsWithApology(value) == Len(value) >= 1 /\ value[1] = ApologyPhrase

\* C1: query never raises to its caller: every call returns a string, and
\* when anything failed inside it (also a missing index) the string begins
\* with the apology phrase and contains the text of the error.
C1_QueryNeverRaises ==
    lastOp = "query" =>
        /\ lastQuery.outcome = "returned"
        /\ lastQuery.err # "none" =>
              /\ StartsWithApology(lastQuery.value)
              /\ \E i \in 1..Len(lastQuery.value) : lastQuery.value[i] = lastQuery.err

\* A query whose embedding call raised a connection error returned the apology.
C1_Witness ==
    /\ lastOp = "query"
    /\ lastQuery.err = "ConnectionError: embedding"
    /\ lastQuery.outcome = "returned"
    /\ StartsWithApology(lastQuery.value)

\* C2: after every successful ingestion run that produced C chunks, the
\* record count of the collection (total_documents) equals C, also when an
\* earlier run already wrote to the same directory and collection.
C2_CountEqualsChunks ==
    (lastRun.kind # "none" /\ lastRun.ok) =>
        /\ ~lastRun.stats.error
        /\ lastRun.stats.total_documents = lastRun.chunks

\* C3: a failure at store setup, loading, chunking, embedding or index
\* writing aborts the run and leaves nothing of it behind: the collection
\* holds no record written by the failed run and the object holds no index
\* built by it.
C3_NoPartialIndex ==
    (lastRun.kind # "none" /\ ~lastRun.ok /\ lastRun.err # "ValueError: query engine") =>
        /\ WrittenByLastRun = {}
        /\ ~(rag.index.set /\ rag.index.run = lastRun.run)

\* C4: within one run of initialize_system the stages are reached only in
\* the order STORE_READY, DOCUMENTS_LOADED, INDEX_BUILT, QUERY_READY, none
\* skipped or repeated, each only after the earlier ones succeeded, and the
\* run succeeds exactly when all four were reached.
C4_StageOrder ==
    lastRun.kind = "rag" =>
        /\ IsPrefix(lastRun.stages, BuildOrder)
        /\ lastRun.ok <=> lastRun.stages = BuildOrder
        /\ lastRun.ok <=> rag.query_engine.set /\ rag.query_engine.run = lastRun.run

\* A run of initialize_system that reached QUERY_READY.
C4_Witness ==
    /\ lastRun.kind = "rag"
    /\ lastRun.ok
    /\ Len(lastRun.stages) = Len(BuildOrder)
    /\ lastRun.stages[Len(BuildOrder)] = "QUERY_READY"

\* C5: each ingestion run starts over: nothing an earlier run built (stored
\* records, index, query engine) is carried into the new run or usable in it.
C5_StartsOver ==
    lastRun.kind # "none" =>
        /\ \A r \in disk.coll[CollectionOf(lastRun.kind)].recs : r.run = lastRun.run
        /\ rag.index.set => rag.index.run = lastRun.run
        /\ rag.query_engine.set => rag.query_engine.run = lastRun.run

\* C6: a call of query, failed or not, leaves the index, the vector-store
\* handle, the query engine and the stored records as they were.
C6_QueryFrame ==
    [][lastOp' = "query" => (rag' = rag /\ som' = som /\ disk' = disk)]_vars

\* A failed query on a built index, with the index still in place.
C6_Witness ==
    /\ lastOp = "query"
    /\ lastQuery.err # "none"
    /\ rag.index.set
    /\ disk.coll[rag.index.name].recs # {}

\* C7: when retrieval yields no chunk, query returns the apology string and
\* not a reply of the completion service.
C7_EmptyRetrievalApology ==
    (lastOp = "query" /\ lastQuery.retrieved /\ lastQuery.nodes = <<>>) =>
        StartsWithApology(lastQuery.value)

\* C8: with the credential absent no entry point starts ingestion or query:
\* no store or collection is opened or created, no document is loaded and
\* no embedding or completion call is made.
C8_NoCredentialNoStart ==
    ~apiKey =>
        /\ effects = {}
        /\ ~disk.dir
        /\ \A c \in CollectionNames : ~disk.coll[c].exists

\* C9 as stated: a run over a directory with no usable file ends in a
\* reported error and creates no collection with zero records.
C9_NoEmptyCollection ==
    (lastRun.kind # "none" /\ docsDirExists /\ Usable(lastRun.kind) = {}) =>
        /\ ~lastRun.ok
        /\ \A c \in lastRun.created : disk.coll[c].recs # {}

\* C9 amended: a run over a directory with no usable file ends in a reported
\* error and writes no record; SOMDataLoader.run_pipeline and the demo
\* create no collection (MindShiftRAG.initialize_system has set up its store
\* before it loads, so its collection exists by then, empty on a first run).
C9_EmptyDirectoryFatal ==
    (lastRun.kind # "none" /\ docsDirExists /\ Usable(lastRun.kind) = {}) =>
        /\ ~lastRun.ok
        /\ lastRun.err # "none"
        /\ WrittenByLastRun = {}
        /\ lastRun.kind \in {"som", "demo"} => lastRun.created = {}

\* initialize_system failed on a directory with no usable file, after it
\* created its collection.
C9_Witness ==
    /\ lastRun.kind = "rag"
    /\ docsDirExists
    /\ Usable("rag") = {}
    /\ lastRun.err = "ValueError: No valid documents found"
    /\ lastRun.created = {RagCollection}
    /\ disk.coll[RagCollection].recs = {}

\* C10: a file that cannot be read or parsed is skipped alone: the loader
\* returns exactly one Document for every other supported file that is
\* readable and non-blank, and with at least one such file the run goes on
\* to the next stage.
C10_SkipUnreadableOnly ==
    lastRun.loadReached =>
        /\ SeqToSet(lastRun.docs) = Usable(lastRun.kind)
        /\ Len(lastRun.docs) = Cardinality(Usable(lastRun.kind))
        /\ Usable(lastRun.kind) # {} =>
              /\ \E i \in 1..Len(lastRun.stages) : lastRun.stages[i] = "DOCUMENTS_LOADED"
              /\ lastRun.err \notin {"FileNotFoundError", "ValueError: No valid documents found"}

\* A run in which b.docx could not be parsed, a.txt and c.docx were loaded,
\* and the build went on to its end.
C10_Witness ==
    /\ lastRun.kind = "rag"
    /\ files["b.docx"].st = "unreadable"
    /\ lastRun.docs = <<"a.txt", "c.docx">>
    /\ lastRun.ok

\* The last run called the loader of its pipeline (initialize_system calls
\* it after the store is set up).
LoaderCalled ==
    /\ lastRun.kind # "none"
    /\ lastRun.kind = "rag" => lastRun.stages # <<>>

\* C11: with the documents directory missing, the loader of each pipeline
\* (MindShiftRAG, SOMDataLoader, the demo) raises the file-not-found error,
\* hands back no document and reads nothing; the run ends with that error,
\* no second attempt follows it.
C11_MissingDirectoryRaises ==
    (LoaderCalled /\ ~docsDirExists) =>
        /\ lastRun.err = "FileNotFoundError"
        /\ ~lastRun.ok
        /\ lastRun.docs = <<>>
        /\ ~lastRun.loadReached
        /\ \A i \in 1..Len(lastRun.stages) : lastRun.stages[i] # "DOCUMENTS_LOADED"
        /\ "documents_loaded" \notin effects

\* run_pipeline of SOMDataLoader ended with the file-not-found error of its
\* loader.
C11_Witness ==
    /\ lastRun.kind = "som"
    /\ ~docsDirExists
    /\ lastRun.err = "FileNotFoundError"
    /\ lastRun.docs = <<>>

\* C12: when initialize_system raises the file-not-found error of a missing
\* documents directory, its process has neither created or opened the
\* persist directory or a collection nor called the embedding service.
C12_NothingOpenedBeforeError ==
    (lastRun.kind = "rag" /\ ~docsDirExists /\ lastRun.err = "FileNotFoundError") =>
        /\ "store_opened" \notin effects
        /\ "collection_opened" \notin effects
        /\ lastRun.created = {}
        /\ "embed_call" \notin effects

\* C13: the retriever of query hands back at most top_k = 5 chunks, each a
\* different record of the collection; when the collection holds no more
\* than top_k records it hands back every one of them.
C13_AtMostTopK ==
    lastQuery.retrieved =>
        LET stored == disk.coll[rag.index.name].recs
            nodes == lastQuery.nodes
        IN  /\ Len(nodes) <= TopK
            /\ SeqToSet(nodes) \subseteq stored
            /\ Cardinality(SeqToSet(nodes)) = Len(nodes)
            /\ Len(nodes) = Min(TopK, Cardinality(stored))
            /\ TopK >= Cardinality(stored) => SeqToSet(nodes) = stored

\* A query over a collection of more than top_k records got top_k of them.
C13_Witness ==
    /\ lastQuery.retrieved
    /\ Cardinality(disk.coll[rag.index.name].recs) > TopK
    /\ Len(lastQuery.nodes) = TopK

\* The text has a run of more than n characters without a separator.
HasLongRun(t, n) ==
    \E i \in 1..(Len(t) - n) : \A j \in i..(i + n) : t[j] \notin Whitespace

NoSeparators(t) == \A i \in 1..Len(t) : t[i] \notin Whitespace

\* A splitter was applied to the text and handed back chunks.
SplitDone == out.by # "none" /\ out.err = "none"

\* C14: every chunk a splitter makes of a text has at most chunk_size
\* characters, unless the text has a run of non-separator characters longer
\* than chunk_size.
C14_ChunkWithinSize ==
    SplitDone =>
        \/ HasLongRun(text, out.chunk_size)
        \/ \A i \in 1..Len(out.chunks) : Len(out.chunks[i]) <= out.chunk_size

\* The last n characters of a are the first n characters of b.
SharedBoundary(a, b, n) ==
    /\ n <= Len(a)
    /\ n <= Len(b)
    /\ SubSeq(a, Len(a) - n + 1, Len(a)) = SubSeq(b, 1, n)

RECURSIVE Covers(_, _, _)
Covers(cs, end, n) ==
    IF cs = <<>> THEN end = Len(text)
    ELSE \E k \in 0..Min(n, end) :
            /\ end - k + Len(Head(cs)) <= Len(text)
            /\ SubSeq(text, end - k + 1, end - k + Len(Head(cs))) = Head(cs)
            /\ Covers(Tail(cs), end - k + Len(Head(cs)), n)

C17_SingleShortFile ==
    (lastRun.kind = "rag" /\ lastRun.ok /\ Usable("rag") = {"b.docx"}) =>
        /\ lastRun.chunks = 1
        /\ lastRun.stats.total_documents = 1
        /\ Retrieve(World, 1) = <<[run |-> lastRun.run, file |-> "b.docx", pos |-> 1]>>

\* C18: a pipeline uses chunk_size 1000, chunk_overlap 200 and top_k 5 when
\* the caller gives none, and for chunk_size, chunk_overlap, top_k,
\* collection_name and persist_directory the value the caller gives is the
\* one used, in MindShiftRAG and in SOMDataLoader (which has no retriever,
\* so top_k is looked at in MindShiftRAG only).
C18_CallerValuesUsed ==
    out.by \in {"som", "rag"} =>
        /\ out.chunk_size = Given(cfg.chunk_size, DefaultChunkSize)
        /\ out.chunk_overlap = Given(cfg.chunk_overlap, DefaultChunkOverlap)
        /\ out.by = "rag" => out.top_k = Given(cfg.top_k, TopK)
        /\ out.collection_name
              = Given(cfg.collection_name, CollectionOf(out.by))
        /\ out.persist_directory = Given(cfg.persist_directory, PersistDir)

\* C19: a collection opened again under the same persist directory and name
\* holds the records stored before: the end and the start of a process
\* leave the directory as it is, and the count of a collection right after
\* a run opened it, before the run writes, is its count before the run.
C19_ReopenKeepsRecords ==
    [][/\ lastOp' \in {"start", "exit"} => disk' = disk
       /\ (lastRun'.kind # "none" /\ lastRun'.openCount # <<>>) =>
             lastRun'.openCount
                = <<Cardinality(disk.coll[CollectionOf(lastRun'.kind)].recs)>>]_vars

\* The demo, a process of its own, opened a collection that held records of
\* an earlier process.
C19_Witness ==
    /\ lastRun.kind = "demo"
    /\ lastRun.run > 1
    /\ lastRun.openCount # <<>>
    /\ lastRun.openCount[1] > 0

\* s occurs in p as a run of consecutive parts.
OccursIn(s, p) ==
    \E i \in 0..(Len(p) - Len(s)) : SubSeq(p, i + 1, i + Len(s)) = s

\* C20: the context block of the prompt is the texts of the retrieved
\* chunks in retrieval order with a double newline between one and the
\* next, and the prompt handed to the completion service holds the user's
\* input as given and that context block unchanged.
C20_PromptComposition ==
    lastQuery.retrieved =>
        LET nodes == lastQuery.nodes
            context == lastQuery.context
        IN  /\ Len(context) = IF nodes = <<>> THEN 0 ELSE 2 * Len(nodes) - 1
            /\ \A i \in 1..Len(nodes) : context[2 * i - 1] = NodeText(nodes[i])
            /\ \A i \in 1..(Len(nodes) - 1) : context[2 * i] = "\n\n"
            /\ OccursIn(<<lastQuery.input>>, lastQuery.prompt)
            /\ OccursIn(context, lastQuery.prompt)
            /\ Len(lastQuery.prompt) > Len(context)

\* A query that retrieved top_k different chunks and got its reply.
C20_Witness ==
    /\ lastQuery.retrieved
    /\ lastQuery.err = "none"
    /\ Len(lastQuery.nodes) = TopK
    /\ lastQuery.nodes[1] # lastQuery.nodes[TopK]
    /\ Len(lastQuery.context) = 2 * TopK - 1

C22_OneCompletionAfterRetrieval ==
    lastOp = "query" =>
        /\ lastQuery.err = "none" =>
              /\ lastQuery.retrieved
              /\ lastQuery.calls = <<"retrieve", "complete">>
              /\ lastQuery.completions = 1
              /\ lastQuery.sent = <<lastQuery.prompt>>
              /\ lastQuery.prompt
                    = CoachingPrompt(lastQuery.input, ContextBlock(lastQuery.nodes))
              /\ Len(lastQuery.generated) = 1
              /\ lastQuery.value = lastQuery.generated
        /\ ~lastQuery.retrieved =>
              /\ lastQuery.err # "none"
              /\ lastQuery.completions = 0
              /\ lastQuery.sent = <<>>
              /\ \A i \in 1..Len(lastQuery.calls) : lastQuery.calls[i] # "complete"

\* A query on a built index got its chunks and the reply of its one
\* completion call.
C22_Witness ==
    /\ lastOp = "query"
    /\ lastQuery.err = "none"
    /\ lastQuery.nodes # <<>>
    /\ lastQuery.calls = <<"retrieve", "complete">>
    /\ lastQuery.value \in {<<r>> : r \in Replies}

\* C23: every Document a loader emits has non-blank text: a supported file
\* whose content is empty or whitespace only (for .docx: after the blank
\* paragraphs are dropped) gives no Document, and no chunk and no stored
\* record comes from it.
C23_NoBlankDocument ==
    /\ lastRun.loadReached =>
          /\ \A i \in 1..Len(lastRun.docs) : files[lastRun.docs[i]].st = "text"
          /\ \A f \in FileNames :
                (Supported(lastRun.kind, f) /\ files[f].st = "blank") =>
                    f \notin SeqToSet(lastRun.docs)
          /\ lastRun.chunks <= Len(lastRun.docs) * MaxChunksPerDoc
    /\ \A c \in CollectionNames : \A r \in disk.coll[c].recs :
          files[r.file].st = "text"

\* run_pipeline succeeded on a directory with a blank .docx file next to a
\* usable one, and loaded the usable one only.
C23_Witness ==
    /\ lastRun.kind = "som"
    /\ lastRun.ok
    /\ docxAvailable
    /\ files["b.docx"].st = "blank"
    /\ lastRun.docs = <<"c.docx">>
    /\ disk.coll[SomCollection].recs # {}

\* The steps of run_pipeline, in order.
PipelineOrder == <<"DOCUMENTS_LOADED", "SPLIT", "EMBEDDINGS", "VECTORSTORE">>

\* C25: run_pipeline never raises: it runs load, split, embedding setup and
\* vector-store creation in that order and stops at the first step that
\* fails (after a failed load or split no store is opened and no vector
\* store is set), returning success = False with the error text; it returns
\* success = True, with documents_loaded and chunks_created, only when all
\* four steps succeeded.
C25_PipelineReturns ==
    lastRun.kind = "som" =>
        LET res == lastRun.result
            split == \E i \in 1..Len(lastRun.stages) : lastRun.stages[i] = "SPLIT"
        IN  /\ "success" \in res.keys
            /\ IsPrefix(lastRun.stages, PipelineOrder)
            /\ res.success <=> lastRun.stages = PipelineOrder
            /\ ~res.success =>
                  /\ res.keys = {"success", "error"}
                  /\ lastRun.err # "none"
                  /\ res.error = <<lastRun.err>>
            /\ res.success =>
                  /\ "error" \notin res.keys
                  /\ res.documents_loaded = <<Len(lastRun.docs)>>
                  /\ res.chunks_created = <<lastRun.chunks>>
                  /\ som.vectorstore = Ref(SomCollection, lastRun.run)
            /\ ~split =>
                  /\ lastRun.created = {}
                  /\ lastRun.openCount = <<>>
                  /\ WrittenByLastRun = {}
                  /\ ~(som.vectorstore.set /\ som.vectorstore.run = lastRun.run)

\* run_pipeline loaded its documents, failed in split_documents and
\* returned the error without opening the store.
C25_Witness ==
    /\ lastRun.kind = "som"
    /\ lastRun.stages = <<"DOCUMENTS_LOADED">>
    /\ lastRun.err = "SplitterError"
    /\ lastRun.result.success = FALSE
    /\ lastRun.result.error = <<"SplitterError">>
    /\ ~disk.dir

\* C28: in the chat loop a line that is, trimmed and in lower case, one of
\* quit, exit, bye ends the loop without a call of query; an empty line is
\* skipped without a call of query; every other line causes one call of
\* query, on the trimmed line, before the next line is read; and the loop
\* ends only on one of the three exit words or on an error that nothing in
\* the loop handles.
C28_ChatLoop ==
    [][entry = "rag_chat" =>
          LET t == lastTurn'
              word == Lower(Strip(t.raw))
          IN  /\ entry' # "rag_chat" => t.step \in {"break", "error"}
              /\ lastOp' \in {"chat", "query"} =>
                    /\ t.step = "error" <=> t.eof
                    /\ (~t.eof /\ word \in ExitWords) =>
                          /\ t.step = "break"
                          /\ t.queries = 0
                          /\ lastQuery' = NoQuery
                          /\ effects' = effects
                          /\ entry' = "none"
                    /\ (~t.eof /\ Strip(t.raw) = <<>>) =>
                          /\ t.step = "continue"
                          /\ t.queries = 0
                          /\ lastQuery' = NoQuery
                          /\ effects' = effects
                          /\ entry' = "rag_chat"
                    /\ (~t.eof /\ word \notin ExitWords /\ Strip(t.raw) # <<>>) =>
                          /\ t.step = "query"
                          /\ t.queries = 1
                          /\ lastQuery'.outcome = "returned"
                          /\ lastQuery'.input = AsString(Strip(t.raw))
                          /\ entry' = "rag_chat"]_vars

\* The loop was left on the line " Quit " without a call of query.
C28_Witness ==
    /\ lastOp = "chat"
    /\ lastTurn.raw = <<" ", "Q", "u", "i", "t", " ">>
    /\ lastTurn.step = "break"
    /\ lastTurn.queries = 0
    /\ entry = "none"

\* The session whose script run got the answer of the last call of query:
\* its history ends with the prompt of the call and the answer.
AnsweredIn(s) ==
    LET h == sessions[s].messages
    IN  /\ Len(h) >= 2
        /\ h[Len(h) - 1] = Message("user", <<lastQuery.input>>)
        /\ h[Len(h)] = Message("assistant", lastQuery.value)

\* C21: query keeps no conversation memory: the prompt it composes is
\* determined by the input string of the call and the built index (the
\* records of its collection) alone, whatever was asked and answered
\* before, in the same browser session or in another one.
C21_NoConversationMemory ==
    (lastOp = "query" /\ lastQuery.retrieved) =>
        /\ lastQuery.prompt
              = CoachingPrompt(lastQuery.input,
                               ContextBlock(Retrieve([rag |-> [index |-> rag.index],
                                                      disk |-> disk], TopK)))
        /\ lastQuery.sent = <<lastQuery.prompt>>

\* A session that had asked something else before, and got an answer, asked
\* again and got the answer of a call that composed its prompt.
C21_Witness ==
    /\ lastOp = "query"
    /\ lastQuery.retrieved
    /\ lastQuery.err = "none"
    /\ \E s \in Sessions :
          /\ AnsweredIn(s)
          /\ Len(sessions[s].messages) = 4
          /\ sessions[s].messages[1].content # <<lastQuery.input>>
          /\ sessions[s].messages[2].role = "assistant"

\* C24: the web front end serializes the calls of query on the shared
\* MindShiftRAG object: over all browser sessions at most one call of query
\* is in progress at any time.
C24_OneQueryAtATime ==
    Cardinality({s \in Sessions : sessions[s].pc = "query"}) <= 1

\* C27: the chat history of a session strictly alternates: after every
\* handled prompt it has even length, and the messages are by the user and
\* by the assistant in turn, the first one by the user.
C27_HistoryAlternates ==
    \A s \in Sessions :
        LET h == sessions[s].messages
        IN  /\ sessions[s].pc = "idle" => Len(h) % 2 = 0
            /\ \A i \in 1..Len(h) :
                  h[i].role = IF i % 2 = 1 THEN "user" ELSE "assistant"

\* The requests of the last call that are not reads.
Writes ==
    {i \in 1..Len(lastFix.requests) : lastFix.requests[i].method # "GET"}

\* C29: fix_user_authentication sends a profile-creation request only when
\* the auth check reported the user existing and the profile check did not.
\* When neither reported the user it returns success with action
\* can_signup, when both did success with action can_signin, when only the
\* profile check did failure with issue unknown, in these three cases
\* without a write request (and so with the project unchanged).
C29_CreateOnlyMissingProfile ==
    [][lastFix'.by = "auth_fixer" =>
          LET f == lastFix'
              a == f.auth_exists
              p == f.profile_exists
              writes == {i \in 1..Len(f.requests) : f.requests[i].method # "GET"}
          IN  /\ f.outcome = "returned"
              /\ a => supa[f.email].auth
              /\ p => supa[f.email].profile
              /\ writes # {} => (a /\ ~p)
              /\ \A i \in writes :
                    f.requests[i] = [method |-> "POST", table |-> "profiles",
                                     email |-> f.email]
              /\ supa' # supa => writes # {}
              /\ (~a /\ ~p) =>
                    /\ f.result = [NoResponse EXCEPT !.success = TRUE,
                                                     !.issue = "user_not_exists",
                                                     !.action = "can_signup"]
                    /\ writes = {}
              /\ (a /\ p) =>
                    /\ f.result = [NoResponse EXCEPT !.success = TRUE,
                                                     !.issue = "user_exists",
                                                     !.action = "can_signin"]
                    /\ writes = {}
              /\ (~a /\ p) =>
                    /\ ~f.result.success
                    /\ f.result.issue = "unknown"
                    /\ writes = {}
              /\ f.result.action = "created_profile" =>
                    (a /\ ~p /\ writes # {} /\ supa'[f.email].profile)]_vars

\* The fixer found an auth user without a profile and created the profile.
C29_Witness ==
    /\ lastFix.by = "auth_fixer"
    /\ lastFix.auth_exists
    /\ ~lastFix.profile_exists
    /\ lastFix.result.action = "created_profile"
    /\ Writes # {}
    /\ supa[lastFix.email].profile

\* C30: fix_user_account deletes a profile only when the existence check
\* reported the user existing and the operator entered choice 2; it sends a
\* create request only after a successful delete or when the user was
\* reported absent, and only when a display name was given; with any other
\* choice it returns kept_existing without a write request.
C30_DeleteOnlyOnChoiceTwo ==
    [][lastFix'.by = "user_manager" =>
          LET f == lastFix'
              reqs == f.requests
              deletes == {i \in 1..Len(reqs) : reqs[i].method = "DELETE"}
              posts == {i \in 1..Len(reqs) : reqs[i].method = "POST"}
          IN  /\ f.profile_exists => supa[f.email].profile
              /\ deletes # {} =>
                    /\ f.profile_exists
                    /\ Strip(f.choice) = <<"2">>
              /\ posts # {} =>
                    /\ Truthy(f.display_name)
                    /\ \/ ~f.profile_exists /\ deletes = {}
                       \/ /\ f.profile_exists
                          /\ f.deleted
                          /\ \E d \in deletes : \A i \in posts : d < i
              /\ f.deleted => deletes # {}
              /\ \A i \in 1..Len(reqs) : reqs[i].email = f.email
              /\ (f.profile_exists /\ f.outcome = "returned"
                    /\ Strip(f.choice) # <<"2">>) =>
                    /\ f.result = [NoResponse EXCEPT !.success = TRUE,
                                                     !.action = "kept_existing"]
                    /\ deletes = {}
                    /\ posts = {}
                    /\ supa' = supa
              /\ f.outcome = "raised" => (deletes = {} /\ posts = {} /\ supa' = supa)]_vars

\* The operator typed " 2 " for an existing profile: it was deleted and,
\* a display name being given, created again.
C30_Witness ==
    /\ lastFix.by = "user_manager"
    /\ lastFix.profile_exists
    /\ lastFix.choice = <<" ", "2", " ">>
    /\ lastFix.deleted
    /\ lastFix.result.action = "recreated"
    /\ Cardinality(Writes) = 2

====
